---- MODULE Spec2Model ----
(***************************************************************************)
(* Durable Meta CAPI delivery queue of amare-api (services/metaQueue.ts,   *)
(* services/bigquery.ts, services/meta.ts).                                *)
(*                                                                         *)
(* The ledger is the append-only BigQuery table meta_capi_queue.  Every    *)
(* await of the TypeScript code is a suspension point, so every async      *)
(* function is cut into one action per synchronous stretch.  Time is the   *)
(* wall clock in milliseconds (Date.now()).                                *)
(***************************************************************************)
EXTENDS Integers, Sequences, FiniteSets, TLC

(* ------------------------------ bounds --------------------------------- *)
\* size of the pool of queue ids uuidv4() can mint in one behaviour
MaxQueueIds == 2
\* cap on Sender invocations per queue id where the code has none
\* (two replay workers can re-send one event without bound)
MaxSenderCalls == 8
\* number of inserts that BigQuery rejects in one behaviour
MaxLostInserts == 1
\* longest time a BigQuery call (insert or scan) stays unanswered, in ms; the
\* code sets no timeout on these calls
LedgerTimeoutMs == 10000

\* size of the pool of webhook calls of one behaviour
MaxHooks == 2

(* ------------------------- program constants --------------------------- *)
\* recordAttemptResult: attemptCount >= 6 -> DEAD
DeadAttempt == 6
\* computeNextAttemptAt: Math.min(Math.pow(2, attemptCount), 60)
MaxDelayMinutes == 60
\* computeNextAttemptAt: delayMinutes * 60000
MsPerMinute == 60000
\* computeNextAttemptAt: Math.random() * 30000
JitterRangeMs == 30000
\* getRetryableMetaEvents(50)
ReplayLimit == 50
\* sendEvent: axios timeout
SendTimeoutMs == 10000
\* getRecentlyProcessedTransactionIds(30)
DedupWindowMinutes == 30
\* reconcileDeferredPayments: since = Date.now() - 15 * 60 * 1000
RecentWindowMinutes == 15
\* reconcileDeferredPayments: const delays = [15000, 30000, 60000]
delays == <<15000, 30000, 60000>>
\* retryDeferredPayments: const delays = [10000, 20000, 30000]
retryDelays == <<10000, 20000, 30000>>
\* toISOString().slice(0, 10): milliseconds in one UTC day
DayMs == 86400000

QueueIds == 1..MaxQueueIds
WorkerIds == {1, 2}
HookIds == 1..MaxHooks
NULL == "null"

\* Math.random() * 30000 lies in [0, 30000); new Date(x) truncates x to an
\* integer millisecond, so the jitter that reaches the row is in 0..29999.
JitterSet == {0, JitterRangeMs - 1}

\* String(n) / `${n}` for a non-negative integer n: its decimal digits
Digit(d) ==
  CASE d = 0 -> "0" [] d = 1 -> "1" [] d = 2 -> "2" [] d = 3 -> "3" [] d = 4 -> "4"
    [] d = 5 -> "5" [] d = 6 -> "6" [] d = 7 -> "7" [] d = 8 -> "8" [] d = 9 -> "9"

RECURSIVE String(_)
String(n) == IF n < 10 THEN Digit(n) ELSE String(n \div 10) \o Digit(n % 10)

\* String.prototype.toLowerCase on the letters A-Z
Upper == "ABCDEFGHIJKLMNOPQRSTUVWXYZ"
Lower == "abcdefghijklmnopqrstuvwxyz"

RECURSIVE toLowerCase(_)
toLowerCase(s) ==
  IF Len(s) = 0 THEN ""
  ELSE LET c == SubSeq(s, 1, 1)
           at == {i \in 1..Len(Upper) : SubSeq(Upper, i, i) = c}
       IN  (IF at = {} THEN c ELSE LET i == CHOOSE k \in at : TRUE IN SubSeq(Lower, i, i))
           \o toLowerCase(SubSeq(s, 2, Len(s)))

\* String.prototype.trim: blanks at both ends are removed
RECURSIVE trim(_)
trim(s) ==
  IF Len(s) = 0 THEN ""
  ELSE IF SubSeq(s, 1, 1) = " " THEN trim(SubSeq(s, 2, Len(s)))
  ELSE IF SubSeq(s, Len(s), Len(s)) = " " THEN trim(SubSeq(s, 1, Len(s) - 1))
  ELSE s

\* sha256(value): the hex digest of the normalized value, written as the
\* term sha256(<normalized value>); equal values have equal digests and a
\* digest is no value a contact carries
sha256(value) == "sha256(" \o trim(toLowerCase(value)) \o ")"

\* hashUserData with the fields copied as they are
hashUserData_plain(fields) ==
  [k \in {f \in DOMAIN fields : fields[f] \notin {NULL, ""}} |-> fields[k]]

\* hashUserData(fields): the digest of every field that is set
hashUserData(fields) ==
  [k \in {f \in DOMAIN fields : fields[f] \notin {NULL, ""}} |-> sha256(fields[k])]

\* what the callers read of a Keap contact; a value that is missing is NULL
Contact(id, email, firstName, lastName, phone, city, state, zip) ==
  [id |-> id, email |-> email, firstName |-> firstName, lastName |-> lastName,
   phone |-> phone, city |-> city, state |-> state, zip |-> zip]

\* a contact with every field set and one that has an email address only
FullContact == Contact(5512, " Ann.Lee@Mail.io", "Ann", "Lee", "+1 555 0100", "Austin", "TX", "73301")
BareContact == Contact(5513, "bo@mail.io", NULL, NULL, NULL, NULL, NULL, NULL)

\* tracking_context rows: <<>> when lookupTrackingContext finds none
TrackingCtx == <<[fbp |-> "fb.1.1700000000.1234", ip_address |-> "203.0.113.9"]>>

\* the contacts of the model
Contacts == {FullContact, BareContact}

\* subscribe.ts 305-314 and keap-webhook.ts 720-729: hashedUserData, for
\* each contact
hashedUserDataOf ==
  [contact \in Contacts |->
     hashUserData([em |-> contact.email, fn |-> contact.firstName, ln |-> contact.lastName,
                   ph |-> contact.phone, external_id |-> String(contact.id),
                   ct |-> contact.city, st |-> contact.state, zp |-> contact.zip])]

\* subscribe.ts 315-318 and keap-webhook.ts 731-735: user_data of the event
userData(contact, trackingCtx) ==
  LET hashedUserData == hashedUserDataOf[contact]
  IN  IF trackingCtx = <<>> THEN hashedUserData
      ELSE [fbp |-> trackingCtx[1].fbp, client_ip_address |-> trackingCtx[1].ip_address]
           @@ hashedUserData

\* subscribe.ts 320-327 and keap-webhook.ts 762-770: the MetaCAPIEvent;
\* custom_data is <<>> for a Subscribe event
MetaCAPIEvent(name, evId, contact, trackingCtx, customData) ==
  [event_name |-> name, event_id |-> evId, action_source |-> "website",
   user_data |-> userData(contact, trackingCtx), custom_data |-> customData]

\* subscribe.ts 329-338 and keap-webhook.ts 772-782: the MetaQueueMetadata
MetaQueueMetadata(source, brand, name, evId, contact, orderId, pixelId) ==
  [source |-> source, brand |-> brand, eventName |-> name, email |-> contact.email,
   emailHash |-> IF "em" \in DOMAIN hashedUserDataOf[contact]
                 THEN hashedUserDataOf[contact].em ELSE NULL,
   keapContactId |-> String(contact.id), orderId |-> orderId,
   eventId |-> evId, pixelId |-> pixelId]

\* metadata handed to sendMetaWithQueue by the two callers
\* (routes/subscribe.ts and routes/keap-webhook.ts)
MetadataSet ==
  { MetaQueueMetadata("subscribe", "flo", "Subscribe", NULL, BareContact, NULL, "px_flo"),
    MetaQueueMetadata("purchase", "hryw", "Purchase", "purchase_txn_1", FullContact, "74001", "px_hryw") }

\* the event the caller hands over together with that metadata
CapiEventFor(metadata) ==
  IF metadata.source = "subscribe"
  THEN MetaCAPIEvent(metadata.eventName, metadata.eventId, BareContact, TrackingCtx, <<>>)
  ELSE MetaCAPIEvent(metadata.eventName, metadata.eventId, FullContact, <<>>,
                     <<[currency |-> "USD", order_id |-> metadata.orderId]>>)

VARIABLES
  clock,        \* Date.now() / CURRENT_TIMESTAMP(), in ms
  hasToken,     \* process.env.META_ACCESS_TOKEN is set
  requests,     \* sendMetaWithQueue calls the request handlers have yet to make
  nextId,       \* number of queue ids minted by uuidv4()
  ledger,       \* meta_capi_queue: per queue_id, its rows in insertion order
  smq,          \* per queue id: the sendMetaWithQueue call that minted it
  worker,       \* per replay worker process: isRunning flag and tick position
  senderCalls,  \* history: sendEvent invocations per queue id
  senderFails,  \* history: sendEvent returns with success:false per queue id
  lostInserts,  \* history: inserts that failed (logged and swallowed)
  crm,          \* Keap: the payment of this behaviour, its order, the contact's paid orders
  recent,       \* Keap: ids of the transactions getRecentTransactions lists
  hooks,        \* per webhook call: position of its handler and of its Reconciler
  webhookLog    \* keap_webhook_log: the rows handed to insertWebhookLog, in order

\* the state of the Keap webhook route
hookVars == <<crm, recent, hooks, webhookLog>>

vars == <<clock, hasToken, requests, nextId, ledger, smq, worker, senderCalls, senderFails, lostInserts, crm, recent, hooks, webhookLog>>

(* ------------------------------ helpers -------------------------------- *)
Min(a, b) == IF a <= b THEN a ELSE b

RECURSIVE Pow2(_)
Pow2(n) == IF n = 0 THEN 1 ELSE 2 * Pow2(n - 1)

\* computeNextAttemptAt with the delay doubled per attempt instead of squared up
\* (2 * attemptCount for Math.pow(2, attemptCount))
computeNextAttemptAt_linear(attemptCount, now, jitterMs) ==
  LET delayMinutes == Min(2 * attemptCount, MaxDelayMinutes)
  IN  now + delayMinutes * MsPerMinute + jitterMs

\* function computeNextAttemptAt(attemptCount), with the clock read and the
\* truncated jitter as explicit inputs
computeNextAttemptAt(attemptCount, now, jitterMs) ==
  LET delayMinutes == Min(Pow2(attemptCount), MaxDelayMinutes)
  IN  now + delayMinutes * MsPerMinute + jitterMs

\* the statusRow without the DEAD branch
statusRow_neverDead(baseRecord, attemptCount, success, now, jitterMs) ==
  [ baseRecord EXCEPT
      !.updated_at = now,
      !.status = IF success THEN "SENT" ELSE "FAILED",
      !.attempt_count = attemptCount,
      !.next_attempt_at = IF success THEN now
                          ELSE computeNextAttemptAt(attemptCount, now, jitterMs),
      !.last_error_message = IF success THEN NULL ELSE "error" ]

\* the statusRow with created_at stamped anew and the event_id column left out
statusRow_restamped(baseRecord, attemptCount, success, now, jitterMs) ==
  [ baseRecord EXCEPT
      !.created_at = now,
      !.updated_at = now,
      !.event_id = NULL,
      !.status = IF success THEN "SENT"
                 ELSE IF attemptCount >= DeadAttempt THEN "DEAD"
                 ELSE "FAILED",
      !.attempt_count = attemptCount,
      !.next_attempt_at = IF success \/ attemptCount >= DeadAttempt THEN now
                          ELSE computeNextAttemptAt(attemptCount, now, jitterMs),
      !.last_error_message = IF success THEN NULL ELSE "error" ]

\* the statusRow built by recordAttemptResult(baseRecord, attemptCount, outcome)
\* (Date.now() of computeNextAttemptAt is read in the same synchronous stretch
\* as `now`, so both are the same clock value)
statusRow(baseRecord, attemptCount, success, now, jitterMs) ==
  [ baseRecord EXCEPT
      !.updated_at = now,
      !.status = IF success THEN "SENT"
                 ELSE IF attemptCount >= DeadAttempt THEN "DEAD"
                 ELSE "FAILED",
      !.attempt_count = attemptCount,
      !.next_attempt_at = IF success \/ attemptCount >= DeadAttempt THEN now
                          ELSE computeNextAttemptAt(attemptCount, now, jitterMs),
      !.last_error_message = IF success THEN NULL ELSE "error" ]

\* the baseRecord built by sendMetaWithQueue(metadata, capiEvent)
baseRecord(queueId, metadata, capiEvent, now) ==
  [ created_at |-> now,
    updated_at |-> now,
    queue_id |-> queueId,
    source |-> metadata.source,
    brand |-> metadata.brand,
    event_name |-> metadata.eventName,
    email |-> metadata.email,
    email_hash |-> metadata.emailHash,
    keap_contact_id |-> metadata.keapContactId,
    order_id |-> metadata.orderId,
    event_id |-> metadata.eventId,
    pixel_id |-> metadata.pixelId,
    capi_payload_json |-> <<capiEvent>>,
    status |-> "PENDING",
    attempt_count |-> 0,
    next_attempt_at |-> now,
    last_error_message |-> NULL ]

\* insertMetaQueueRow as an upsert keyed by queue_id: the stored row of the
\* queue id is overwritten in place
insertMetaQueueRow_upsert(table, record) ==
  [table EXCEPT ![record.queue_id] =
     IF @ = <<>> THEN <<record>> ELSE [@ EXCEPT ![Len(@)] = record]]

\* BigQueryClient.insertMetaQueueRow(record): tableRef.insert([record])
insertMetaQueueRow(table, record) ==
  [table EXCEPT ![record.queue_id] = Append(@, record)]

Range(s) == {s[i] : i \in 1..Len(s)}

Rows(q) == Range(ledger[q])

\* ARRAY_AGG(t ORDER BY updated_at DESC LIMIT 1)[OFFSET(0)] ... GROUP BY queue_id:
\* the rows of q that can be returned as its latest row (any row of maximum
\* updated_at; BigQuery breaks a tie arbitrarily)
LatestRows(q) == {r \in Rows(q) : \A o \in Rows(q) : o.updated_at <= r.updated_at}

\* the retry scan with FAILED left out of the status filter
IsDue_pendingOnly(r, now) == r.status = "PENDING" /\ r.next_attempt_at <= now

\* WHERE status IN ('PENDING','FAILED') AND next_attempt_at <= CURRENT_TIMESTAMP()
IsDue(r, now) == r.status \in {"PENDING", "FAILED"} /\ r.next_attempt_at <= now

IsSortedByNextAttempt(s) ==
  \A i, j \in 1..Len(s) : i < j => s[i].next_attempt_at <= s[j].next_attempt_at

\* all sequences listing every element of the finite set S once
RECURSIVE Perms(_)
Perms(S) ==
  IF S = {} THEN {<<>>}
  ELSE UNION {{<<x>> \o p : p \in Perms(S \ {x})} : x \in S}

\* BigQueryClient.getRetryableMetaEvents(limit): every result the query can
\* return at time `now`
getRetryableMetaEvents(limit, now) ==
  LET present == {q \in QueueIds : ledger[q] # <<>>}
      latestChoices == [present -> UNION {LatestRows(q) : q \in present}]
      latest == {f \in latestChoices : \A q \in present : f[q] \in LatestRows(q)}
      dueOf(f) == {f[q] : q \in {p \in present : IsDue(f[p], now)}}
      ordered(f) == {s \in Perms(dueOf(f)) : IsSortedByNextAttempt(s)}
  IN  UNION {{SubSeq(s, 1, Min(limit, Len(s))) : s \in ordered(f)} : f \in latest}

(* ------------------------- Keap webhook: data -------------------------- *)
\* the dedup key with the prefix left out (event_id = String(paymentId))
eventId_bare(paymentId) == String(paymentId)

\* processPayment: const eventId = `purchase_txn_${paymentId}`
eventId(paymentId) == "purchase_txn_" \o String(paymentId)

\* event_id LIKE 'purchase_txn_%' ('_' stands for any one character)
LikePurchaseTxn(s) ==
  /\ Len(s) >= 13
  /\ SubSeq(s, 1, 8) = "purchase"
  /\ SubSeq(s, 10, 12) = "txn"

\* eventId.replace('purchase_txn_', ''): the first occurrence is removed
replace(s) ==
  LET n == Len("purchase_txn_")
      at == {i \in 1..(Len(s) - n + 1) : SubSeq(s, i, i + n - 1) = "purchase_txn_"}
  IN  IF at = {} THEN s
      ELSE LET i == CHOOSE k \in at : \A j \in at : k <= j
           IN  SubSeq(s, 1, i - 1) \o SubSeq(s, i + n, Len(s))

\* the Dedup Index query reading only the events already delivered
\* (status = 'SENT' for the created_at window)
getRecentlyProcessedTransactionIds_sentOnly(minutesBack, now) ==
  LET rows == {r \in UNION {Rows(q) : q \in QueueIds} :
                 /\ r.source = "purchase"
                 /\ r.event_id # NULL
                 /\ LikePurchaseTxn(r.event_id)
                 /\ r.status = "SENT"}
  IN  {replace(r.event_id) : r \in rows}

\* BigQueryClient.getRecentlyProcessedTransactionIds(minutesBack), evaluated
\* at time `now`
getRecentlyProcessedTransactionIds(minutesBack, now) ==
  LET rows == {r \in UNION {Rows(q) : q \in QueueIds} :
                 /\ r.source = "purchase"
                 /\ r.event_id # NULL
                 /\ LikePurchaseTxn(r.event_id)
                 /\ r.created_at >= now - minutesBack * MsPerMinute}
  IN  {replace(r.event_id) : r \in rows}

\* new Date(x).toISOString().slice(0, 10): the UTC day of the instant x
isoDay(x) == x \div DayMs

\* lines 623-627 with the comparison of the two days left out
installmentSkip_never(order, now) == FALSE

\* lines 623-627: the order carries a creation date and it is not today
installmentSkip(order, now) ==
  /\ order.creation_date # <<>>
  /\ isoDay(order.creation_date[1]) # isoDay(now)

\* lines 682-685 without the exclusion of the order being classified
priorSubscriptionOrders_countSelf(contactOrders, subscriptionPlanId, orderId) ==
  {o \in contactOrders : o.subscription_plan = subscriptionPlanId}

\* lines 682-685: contactOrders.filter(...)
priorSubscriptionOrders(contactOrders, subscriptionPlanId, orderId) ==
  {o \in contactOrders : o.subscription_plan = subscriptionPlanId /\ String(o.id) # orderId}

\* line 677: let eventName = 'Purchase', the name that stands unless line 688
\* replaces it
defaultEventName == "Purchase"

\* lines 686-689: if (priorOrderCount > 0) eventName = 'RecurringPayment'
eventName(priorOrderCount) ==
  IF priorOrderCount > 0 THEN "RecurringPayment" ELSE defaultEventName

\* the metadata with the event keyed by the order instead of the payment
queueMetadata_orderKey(paymentId, name) ==
  MetaQueueMetadata("purchase", "hryw", name, "purchase_txn_" \o String(crm.order_ids),
                    crm.contact, String(crm.order_ids), "px_hryw")

\* lines 772-782: the metadata handed to sendMetaWithQueue
queueMetadata(paymentId, name) ==
  MetaQueueMetadata("purchase", "hryw", name, eventId(paymentId),
                    crm.contact, String(crm.order_ids), "px_hryw")

\* lines 719-770: the event built for the payment
paymentCapiEvent(paymentId, name) ==
  MetaCAPIEvent(name, eventId(paymentId), crm.contact, crm.trackingCtx,
                <<[currency |-> "USD", order_id |-> String(crm.order_ids)]>>)

\* Keap orders: subscription_plan is the plan id, 0 when the order carries no
\* plan (`subPlan?.id` is falsy for both); creation_date is <<instant>> or <<>>
Order(id, createdAt, plan) ==
  [id |-> id, creation_date |-> <<createdAt>>, subscription_plan |-> plan]

\* the payment of a behaviour: its transaction (id, date_created, order_ids;
\* the payment is made at instant 0), its contact and
\* the tracking context found for it, the order, and what
\* getOrdersByContact(contactId, 'PAID') lists for its contact
CrmSet ==
  { [paymentId |-> 845325, date_created |-> 0, order_ids |-> 74775, contact |-> FullContact, trackingCtx |-> TrackingCtx,
     order |-> Order(74775, 0, 0), paidOrders |-> {}],
    [paymentId |-> 845325, date_created |-> 0, order_ids |-> 74775, contact |-> FullContact, trackingCtx |-> <<>>,
     order |-> Order(74775, -1, 0), paidOrders |-> {}],
    [paymentId |-> 900001, date_created |-> 0, order_ids |-> 74776, contact |-> FullContact, trackingCtx |-> <<>>,
     order |-> Order(74776, 0, 7),
     paidOrders |-> {Order(74776, 0, 7), Order(74001, -20 * DayMs, 7), Order(74002, -10 * DayMs, 7)}],
    [paymentId |-> 900001, date_created |-> 0, order_ids |-> 74776, contact |-> BareContact, trackingCtx |-> TrackingCtx,
     order |-> Order(74776, 0, 7), paidOrders |-> {Order(74776, 0, 7), Order(74003, 0, 8)}],
    [paymentId |-> 900001, date_created |-> 0, order_ids |-> 74776, contact |-> BareContact, trackingCtx |-> <<>>,
     order |-> Order(74776, -1, 7), paidOrders |-> {Order(74001, -20 * DayMs, 7)}],
    [paymentId |-> 900050, date_created |-> 0, order_ids |-> 74777, contact |-> BareContact, trackingCtx |-> <<>>,
     order |-> Order(74777, 0, 0), paidOrders |-> {}],
    [paymentId |-> 900050, date_created |-> 0, order_ids |-> 74777, contact |-> FullContact, trackingCtx |-> TrackingCtx,
     order |-> Order(74777, 0, 7), paidOrders |-> {Order(74777, 0, 7)}] }

\* the upsell transaction of the reconciliation scenario
UpsellCrm == CHOOSE c \in CrmSet : c.paymentId = 900050 /\ c.order.subscription_plan = 0

(* ------------------------------- Init ---------------------------------- *)
\* `since` is the clock value at which the await a process is suspended in began
IdleSmq == [pc |-> "none", baseRecord |-> NULL, row |-> NULL, since |-> 0]
IdleWorker == [isRunning |-> FALSE, pc |-> "idle", events |-> <<>>, row |-> NULL, since |-> 0]

\* a webhook call: position of the request handler and, after it, of the
\* Reconciler it started.  i counts the Reconciler attempts completed;
\* acked, log, indexFailed and warnings record the reply sent, the closing log
\* line of reconcileDeferredPayments, the error logged by a failed index query
\* and the number of classification errors logged (lines 671, 696); event_key
\* is the key of an event the handler processes, object_keys the keys it
\* loops over (line 354), reply the body of the response sent, errors the
\* number of exceptions of processPayment the handler logged (line 368).
\* In the contact-scoped variant (retryDeferredPayments) reconciled is its
\* set newlyProcessed and processedTxnIds the set its handler hands over
IdleHook ==
  [pc |-> "none", event_key |-> NULL, object_keys |-> <<>>, reply |-> "none", warnings |-> 0, errors |-> 0,
   immediate |-> <<>>, deferredCount |-> 0, caller |-> "handler",
   paymentId |-> 0, subscriptionPlanId |-> 0, rawOrderJson |-> <<>>,
   i |-> 0, reconciled |-> {}, recentTxns |-> <<>>, alreadyProcessed |-> {},
   processedTxnIds |-> {},
   since |-> 0, acked |-> FALSE, log |-> "none", indexFailed |-> FALSE]

\* a webhook call that never arrives
OffHook == [IdleHook EXCEPT !.pc = "off"]

\* the delivery queue before any event was handed to it
InitQueue ==
  /\ clock = 0
  /\ nextId = 0
  /\ ledger = [q \in QueueIds |-> <<>>]
  /\ smq = [q \in QueueIds |-> IdleSmq]
  /\ worker = [w \in WorkerIds |-> IdleWorker]
  /\ senderCalls = [q \in QueueIds |-> 0]
  /\ senderFails = [q \in QueueIds |-> 0]
  /\ lostInserts = 0

\* no Keap webhook call arrives
NoWebhooks ==
  /\ crm = UpsellCrm
  /\ recent = {}
  /\ hooks = [h \in HookIds |-> OffHook]
  /\ webhookLog = <<>>

InitCommon == InitQueue /\ NoWebhooks

\* one event is handed to the queue; META_ACCESS_TOKEN is set or not
Init == InitCommon /\ hasToken \in BOOLEAN /\ requests = 1

(* ------------------------------ the clock ------------------------------ *)
\* how long the await at position pc can last: sendEvent resolves within the
\* axios timeout, a BigQuery call within LedgerTimeoutMs; the positions
\* "attempt" and "loop" lie inside one synchronous stretch and take no time
AwaitLimit(pc) ==
  CASE pc = "sending" -> SendTimeoutMs
    [] pc \in {"insertPending", "recording", "scan"} -> LedgerTimeoutMs
    [] pc \in {"attempt", "loop"} -> 0
    [] OTHER -> -1

\* the positions at which a process waits for an insert or a send to answer
Awaiting(pc) == pc \in {"insertPending", "sending", "recording"}

\* an insert or a send never answers within the millisecond in which it was
\* issued (a scan is evaluated at some instant between its issue and its
\* answer, which can be the instant of its issue)
Answered(p) == Awaiting(p.pc) /\ clock > p.since

\* the clock may reach t only if every pending await can still be pending at t
SendsReturnBy(t) ==
  /\ \A q \in QueueIds : AwaitLimit(smq[q].pc) >= 0 => t - smq[q].since <= AwaitLimit(smq[q].pc)
  /\ \A w \in WorkerIds : AwaitLimit(worker[w].pc) >= 0 => t - worker[w].since <= AwaitLimit(worker[w].pc)

\* one millisecond passes while some call issued in this millisecond is pending
\* (a millisecond in which no process waits for time to pass changes nothing)
ClockTick ==
  /\ \/ \E q \in QueueIds : Awaiting(smq[q].pc) /\ smq[q].since = clock
     \/ \E w \in WorkerIds : Awaiting(worker[w].pc) /\ worker[w].since = clock
  /\ SendsReturnBy(clock + 1)
  /\ clock' = clock + 1
  /\ UNCHANGED <<hasToken, requests, nextId, ledger, smq, worker, senderCalls, senderFails, lostInserts, hookVars>>

\* the backoff instants still ahead of the clock
DueInstants ==
  {r.next_attempt_at : r \in {x \in UNION {LatestRows(q) : q \in QueueIds} :
                                x.status = "FAILED" /\ x.next_attempt_at > clock}}

\* time passes until the earliest scheduled retry becomes due
AdvanceToDue ==
  /\ DueInstants # {}
  /\ LET t == CHOOSE x \in DueInstants : \A y \in DueInstants : x <= y
     IN  /\ SendsReturnBy(t)
         /\ clock' = t
  /\ UNCHANGED <<hasToken, requests, nextId, ledger, smq, worker, senderCalls, senderFails, lostInserts, hookVars>>

(* -------------------------- sendMetaWithQueue -------------------------- *)
\* lines 778-809: mint the queue id, build baseRecord, start the PENDING insert
sendMetaWithQueue(metadata, capiEvent) ==
  /\ requests > 0
  /\ nextId < MaxQueueIds
  /\ requests' = requests - 1
  /\ nextId' = nextId + 1
  /\ smq' = [smq EXCEPT ![nextId + 1] =
               [pc |-> "insertPending",
                baseRecord |-> baseRecord(nextId + 1, metadata, capiEvent, clock),
                row |-> NULL, since |-> clock]]
  /\ UNCHANGED <<clock, hasToken, ledger, worker, senderCalls, senderFails, lostInserts>>

\* line 809: await insertMetaQueueRow(baseRecord) resolves, the row is stored
SmqPendingInserted(q) ==
  /\ smq[q].pc = "insertPending"
  /\ Answered(smq[q])
  /\ ledger' = insertMetaQueueRow(ledger, smq[q].baseRecord)
  /\ smq' = [smq EXCEPT ![q].pc = "attempt", ![q].since = clock]
  /\ UNCHANGED <<clock, hasToken, requests, nextId, worker, senderCalls, senderFails, lostInserts, hookVars>>

\* lines 812, 826: the access token is there, metaCAPIClient.sendEvent is invoked
SmqSend(q) ==
  /\ smq[q].pc = "attempt"
  /\ hasToken
  /\ senderCalls' = [senderCalls EXCEPT ![q] = @ + 1]
  /\ smq' = [smq EXCEPT ![q].pc = "sending", ![q].since = clock]
  /\ UNCHANGED <<clock, hasToken, requests, nextId, ledger, worker, senderFails, lostInserts, hookVars>>

\* lines 812-824: no access token; a failure outcome is made up without
\* calling sendEvent and recordAttemptResult(baseRecord, 1, result) builds its row
SmqNoToken(q, jitterMs) ==
  /\ smq[q].pc = "attempt"
  /\ ~hasToken
  /\ smq' = [smq EXCEPT ![q].pc = "recording", ![q].since = clock,
                        ![q].row = statusRow(smq[q].baseRecord, 1, FALSE, clock, jitterMs)]
  /\ UNCHANGED <<clock, hasToken, requests, nextId, ledger, worker, senderCalls, senderFails, lostInserts, hookVars>>

\* lines 826-838: sendEvent returns; recordAttemptResult(baseRecord, 1, result)
\* builds its row and starts the insert without being awaited
SmqSendReturn(q, success, jitterMs) ==
  /\ smq[q].pc = "sending"
  /\ Answered(smq[q])
  /\ senderFails' = [senderFails EXCEPT ![q] = IF success THEN @ ELSE @ + 1]
  /\ smq' = [smq EXCEPT ![q].pc = "recording", ![q].since = clock,
                        ![q].row = statusRow(smq[q].baseRecord, 1, success, clock, jitterMs)]
  /\ UNCHANGED <<clock, hasToken, requests, nextId, ledger, worker, senderCalls, lostInserts, hookVars>>

\* line 763 reached from 820/834: the fire-and-forget insert stores the row
SmqRecorded(q) ==
  /\ smq[q].pc = "recording"
  /\ Answered(smq[q])
  /\ ledger' = insertMetaQueueRow(ledger, smq[q].row)
  /\ smq' = [smq EXCEPT ![q].pc = "done"]
  /\ UNCHANGED <<clock, hasToken, requests, nextId, worker, senderCalls, senderFails, lostInserts, hookVars>>

\* the same with a failing PENDING append rejecting sendMetaWithQueue
SmqPendingInsertFailed_abort(q) ==
  /\ smq[q].pc = "insertPending"
  /\ Answered(smq[q])
  /\ lostInserts < MaxLostInserts
  /\ lostInserts' = lostInserts + 1
  /\ smq' = [smq EXCEPT ![q].pc = "done"]
  /\ UNCHANGED <<clock, hasToken, requests, nextId, ledger, worker, senderCalls, senderFails, hookVars>>

\* line 809 with insertMetaQueueRow's catch (part_003 383-390): the PENDING
\* insert fails, the error is logged, sendMetaWithQueue goes on
SmqPendingInsertFailed(q) ==
  /\ smq[q].pc = "insertPending"
  /\ Answered(smq[q])
  /\ lostInserts < MaxLostInserts
  /\ lostInserts' = lostInserts + 1
  /\ smq' = [smq EXCEPT ![q].pc = "attempt", ![q].since = clock]
  /\ UNCHANGED <<clock, hasToken, requests, nextId, ledger, worker, senderCalls, senderFails, hookVars>>

\* line 763 with insertMetaQueueRow's catch: the insert of the result row fails
SmqRecordFailed(q) ==
  /\ smq[q].pc = "recording"
  /\ Answered(smq[q])
  /\ lostInserts < MaxLostInserts
  /\ lostInserts' = lostInserts + 1
  /\ smq' = [smq EXCEPT ![q].pc = "done"]
  /\ UNCHANGED <<clock, hasToken, requests, nextId, ledger, worker, senderCalls, senderFails, hookVars>>

(* ------------------------- startReplayWorker.tick ----------------------- *)
\* some queue id has a latest row that a scan issued now can return
SomethingDue == \E q \in QueueIds : \E r \in LatestRows(q) : IsDue(r, clock)

\* lines 849-853: the interval fires while no tick is running; the scan starts.
\* (A tick that starts while nothing is due differs from a later tick only in
\* the instant at which the flag is taken; only ticks that start with a due
\* row are explored.)
WorkerTick(w) ==
  /\ ~worker[w].isRunning
  /\ SomethingDue
  /\ worker' = [worker EXCEPT ![w].isRunning = TRUE, ![w].pc = "scan", ![w].since = clock]
  /\ UNCHANGED <<clock, hasToken, requests, nextId, ledger, smq, senderCalls, senderFails, lostInserts, hookVars>>

\* lines 853-857: getRetryableMetaEvents(50) resolves
WorkerScanned(w) ==
  /\ worker[w].pc = "scan"
  /\ \E events \in getRetryableMetaEvents(ReplayLimit, clock) :
       worker' = [worker EXCEPT ![w] =
                    IF events = <<>> THEN IdleWorker
                    ELSE [@ EXCEPT !.pc = "loop", !.events = events, !.since = clock]]
  /\ UNCHANGED <<clock, hasToken, requests, nextId, ledger, smq, senderCalls, senderFails, lostInserts, hookVars>>

\* line 876: JSON.parse(event.capi_payload_json) returns a value.  The stored
\* text is written as the sequence JSON.stringify was given; <<>> stands for a
\* stored text that is not JSON (empty, or cut short)
Parseable(text) == text # <<>>

\* lines 853-857 with the catch of getRetryableMetaEvents (part_003 418-421):
\* the query fails, [] is returned and the tick ends
WorkerScanFailed(w) ==
  /\ worker[w].pc = "scan"
  /\ worker' = [worker EXCEPT ![w] = IdleWorker]
  /\ UNCHANGED <<clock, hasToken, requests, nextId, ledger, smq, senderCalls, senderFails, lostInserts, hookVars>>

\* lines 862-882: next event of the batch, token present, sendEvent is invoked
WorkerSend(w) ==
  /\ worker[w].pc = "loop"
  /\ hasToken
  /\ LET event == Head(worker[w].events)
     IN  /\ Parseable(event.capi_payload_json)
         /\ senderCalls[event.queue_id] < MaxSenderCalls
         /\ senderCalls' = [senderCalls EXCEPT ![event.queue_id] = @ + 1]
  /\ worker' = [worker EXCEPT ![w].pc = "sending", ![w].since = clock]
  /\ UNCHANGED <<clock, hasToken, requests, nextId, ledger, smq, senderFails, lostInserts, hookVars>>

\* lines 864-874: no access token; a failure outcome is made up and
\* recordAttemptResult(event, event.attempt_count + 1, result) builds its row
WorkerNoToken(w, jitterMs) ==
  /\ worker[w].pc = "loop"
  /\ ~hasToken
  /\ LET event == Head(worker[w].events)
     IN  worker' = [worker EXCEPT ![w].pc = "recording", ![w].since = clock,
                      ![w].row = statusRow(event, event.attempt_count + 1, FALSE, clock, jitterMs)]
  /\ UNCHANGED <<clock, hasToken, requests, nextId, ledger, smq, senderCalls, senderFails, lostInserts, hookVars>>

\* lines 877-884: sendEvent returns;
\* recordAttemptResult(event, event.attempt_count + 1, result) builds its row
WorkerSendReturn(w, success, jitterMs) ==
  /\ worker[w].pc = "sending"
  /\ Answered(worker[w])
  /\ LET event == Head(worker[w].events)
     IN  /\ senderFails' = [senderFails EXCEPT ![event.queue_id] = IF success THEN @ ELSE @ + 1]
         /\ worker' = [worker EXCEPT ![w].pc = "recording", ![w].since = clock,
                         ![w].row = statusRow(event, event.attempt_count + 1, success, clock, jitterMs)]
  /\ UNCHANGED <<clock, hasToken, requests, nextId, ledger, smq, senderCalls, lostInserts, hookVars>>

\* the same without the finally block: the flag stays taken
AfterEvent_keepFlag(wk, now) ==
  IF Len(wk.events) = 1 THEN [IdleWorker EXCEPT !.isRunning = TRUE]
  ELSE [wk EXCEPT !.pc = "loop", !.events = Tail(wk.events), !.row = NULL, !.since = now]

\* the loop moves to the next event; after the last one the tick completes
\* and the finally block releases the flag (lines 894-904)
AfterEvent(wk, now) ==
  IF Len(wk.events) = 1 THEN IdleWorker
  ELSE [wk EXCEPT !.pc = "loop", !.events = Tail(wk.events), !.row = NULL, !.since = now]

\* line 884 (763): the awaited insert of the result row resolves, row stored
WorkerRecorded(w) ==
  /\ worker[w].pc = "recording"
  /\ Answered(worker[w])
  /\ ledger' = insertMetaQueueRow(ledger, worker[w].row)
  /\ worker' = [worker EXCEPT ![w] = AfterEvent(@, clock)]
  /\ UNCHANGED <<clock, hasToken, requests, nextId, smq, senderCalls, senderFails, lostInserts, hookVars>>

\* the same with the row stored although the insert reported an error
WorkerRecordFailed_stored(w) ==
  /\ worker[w].pc = "recording"
  /\ Answered(worker[w])
  /\ lostInserts < MaxLostInserts
  /\ lostInserts' = lostInserts + 1
  /\ ledger' = insertMetaQueueRow(ledger, worker[w].row)
  /\ worker' = [worker EXCEPT ![w] = AfterEvent(@, clock)]
  /\ UNCHANGED <<clock, hasToken, requests, nextId, smq, senderCalls, senderFails, hookVars>>

\* line 871/884 with insertMetaQueueRow's catch: the insert of the result row
\* fails, the error is logged, the loop goes on
WorkerRecordFailed(w) ==
  /\ worker[w].pc = "recording"
  /\ Answered(worker[w])
  /\ lostInserts < MaxLostInserts
  /\ lostInserts' = lostInserts + 1
  /\ worker' = [worker EXCEPT ![w] = AfterEvent(@, clock)]
  /\ UNCHANGED <<clock, hasToken, requests, nextId, ledger, smq, senderCalls, senderFails, hookVars>>

\* the same with the error of one event ending the tick (caught by the
\* outer catch of line 900 instead of the catch of line 890)
WorkerParseFailed_abort(w) ==
  /\ worker[w].pc = "loop"
  /\ hasToken
  /\ ~Parseable(Head(worker[w].events).capi_payload_json)
  /\ worker' = [worker EXCEPT ![w] = IdleWorker]
  /\ UNCHANGED <<clock, hasToken, requests, nextId, ledger, smq, senderCalls, senderFails, lostInserts, hookVars>>

\* lines 876, 890-893: JSON.parse throws, the catch of the event logs the
\* error and counts it, the loop goes on; no row is written
WorkerParseFailed(w) ==
  /\ worker[w].pc = "loop"
  /\ hasToken
  /\ ~Parseable(Head(worker[w].events).capi_payload_json)
  /\ worker' = [worker EXCEPT ![w] = AfterEvent(@, clock)]
  /\ UNCHANGED <<clock, hasToken, requests, nextId, ledger, smq, senderCalls, senderFails, lostInserts, hookVars>>

\* line 846: the flag isRunning of the process, shared by every invocation
\* of tick; worker[w] is the w-th invocation the interval has in flight
isRunning == \E v \in WorkerIds : worker[v].isRunning

\* the same without the test of the flag
tick_noFlag(w) == WorkerTick(w)

\* lines 848-853: the interval invokes tick, the flag is free and is taken
tick(w) == ~isRunning /\ WorkerTick(w)

\* line 849: the interval invokes tick while the flag is taken: it returns
WorkerTickSkipped(w) ==
  /\ isRunning
  /\ worker[w].pc = "idle"
  /\ worker' = [worker EXCEPT ![w].pc = "skipped"]
  /\ UNCHANGED <<clock, hasToken, requests, nextId, ledger, smq, senderCalls, senderFails, lostInserts, hookVars>>

(* --------------------- Keap webhook: processPayment --------------------- *)
\* the variables of the delivery queue that a step of the route leaves alone
queueVars == <<clock, hasToken, requests, nextId, ledger, smq, worker, senderCalls, senderFails, lostInserts>>

\* processPayment(paymentId) is called and runs up to its first await
StartPayment(hk, paymentId, caller) ==
  [hk EXCEPT !.pc = "getTransaction", !.paymentId = paymentId, !.caller = caller,
             !.subscriptionPlanId = 0, !.rawOrderJson = <<>>]

\* the same without the break of line 414
NextAttempt_noBreak(hk, now) ==
  IF hk.i >= Len(delays)
  THEN [hk EXCEPT !.pc = "done", !.log = IF hk.reconciled # {} THEN "complete" ELSE "warn"]
  ELSE [hk EXCEPT !.pc = "sleep", !.since = now]

\* reconcileDeferredPayments, head of the attempt loop (lines 413-420) and,
\* past the loop, the closing log line (lines 459-469)
NextAttempt(hk, now) ==
  IF hk.i >= Len(delays) \/ Cardinality(hk.reconciled) >= hk.deferredCount
  THEN [hk EXCEPT !.pc = "done", !.log = IF hk.reconciled # {} THEN "complete" ELSE "warn"]
  ELSE [hk EXCEPT !.pc = "sleep", !.since = now]

\* the same with the expected count tested before every transaction
RECURSIVE ReconcileLoop_gated(_, _)
ReconcileLoop_gated(hk, now) ==
  IF hk.recentTxns = <<>> \/ Cardinality(hk.reconciled) >= hk.deferredCount
  THEN NextAttempt([hk EXCEPT !.i = @ + 1, !.recentTxns = <<>>], now)
  ELSE LET txnId == Head(hk.recentTxns)
           rest == [hk EXCEPT !.recentTxns = Tail(@)]
       IN  IF txnId <= 0 THEN ReconcileLoop_gated(rest, now)
           ELSE IF String(txnId) \in hk.alreadyProcessed \/ txnId \in hk.reconciled
                THEN ReconcileLoop_gated(rest, now)
                ELSE StartPayment(rest, txnId, "reconciler")

\* reconcileDeferredPayments, the loop over recentTxns (lines 435-453) up to
\* the next processPayment call
RECURSIVE ReconcileLoop(_, _)
ReconcileLoop(hk, now) ==
  IF hk.recentTxns = <<>> THEN NextAttempt([hk EXCEPT !.i = @ + 1], now)
  ELSE LET txnId == Head(hk.recentTxns)
           rest == [hk EXCEPT !.recentTxns = Tail(@)]
       IN  IF txnId <= 0 THEN ReconcileLoop(rest, now)
           ELSE IF String(txnId) \in hk.alreadyProcessed \/ txnId \in hk.reconciled
                THEN ReconcileLoop(rest, now)
                ELSE StartPayment(rest, txnId, "reconciler")

\* retryDeferredPayments, head of the attempt loop (lines 950-957) and, past
\* the loop, the closing log line (lines 982-992)
RetryNextAttempt(hk, now) ==
  IF hk.i >= Len(retryDelays) \/ Cardinality(hk.reconciled) >= hk.deferredCount
  THEN [hk EXCEPT !.pc = "done",
                  !.log = IF Cardinality(hk.reconciled) < hk.deferredCount
                          THEN "warn" ELSE "complete"]
  ELSE [hk EXCEPT !.pc = "retrySleep", !.since = now]

\* retryDeferredPayments, the loop over recentTxns (lines 962-977) up to the
\* next processPayment call
RECURSIVE RetryLoop(_, _)
RetryLoop(hk, now) ==
  IF hk.recentTxns = <<>> THEN RetryNextAttempt([hk EXCEPT !.i = @ + 1], now)
  ELSE LET txnId == Head(hk.recentTxns)
           rest == [hk EXCEPT !.recentTxns = Tail(@)]
       IN  IF txnId = 0 \/ txnId \in hk.processedTxnIds \/ txnId \in hk.reconciled
           THEN RetryLoop(rest, now)
           ELSE StartPayment(rest, txnId, "retry")

\* the request handler past the loop over `immediate` (lines 375-382): the
\* Reconciler is started if a key was a placeholder, and the call is acked
HandlerEnd(hk, now) ==
  IF hk.deferredCount > 0
  THEN [NextAttempt([hk EXCEPT !.immediate = <<>>], now) EXCEPT !.acked = TRUE, !.reply = "received"]
  ELSE [hk EXCEPT !.immediate = <<>>, !.pc = "done", !.acked = TRUE, !.reply = "received"]

\* the same with line 445, reconciled.add(txnId), left out
AfterPayment_noAdd(hk, threw, now) ==
  IF hk.caller = "handler"
  THEN LET hd == [hk EXCEPT !.errors = IF threw THEN @ + 1 ELSE @]
       IN  IF Tail(hd.immediate) # <<>>
           THEN StartPayment([hd EXCEPT !.immediate = Tail(@)], hd.immediate[2], "handler")
           ELSE HandlerEnd(hd, now)
  ELSE IF hk.caller = "retry" THEN RetryLoop(hk, now)
  ELSE ReconcileLoop(hk, now)

\* processPayment returned or threw: its caller goes on (handler lines
\* 364-370, Reconciler lines 443-452)
AfterPayment(hk, threw, now) ==
  IF hk.caller = "handler"
  THEN LET hd == [hk EXCEPT !.errors = IF threw THEN @ + 1 ELSE @]
       IN  IF Tail(hd.immediate) # <<>>
           THEN StartPayment([hd EXCEPT !.immediate = Tail(@)], hd.immediate[2], "handler")
           ELSE HandlerEnd(hd, now)
  ELSE IF hk.caller = "retry"
  THEN RetryLoop([hk EXCEPT !.reconciled = IF threw THEN @ ELSE @ \cup {hk.paymentId}], now)
  ELSE ReconcileLoop([hk EXCEPT !.reconciled = IF threw THEN @ ELSE @ \cup {hk.paymentId}], now)

\* the row with the inputs of the classification left out
WebhookLogRow_bare(hk, name, priorOrderCount, note, now) ==
  [created_at |-> now, payment_id |-> hk.paymentId, event_name |-> name,
   subscription_plan_id |-> 0, prior_order_count |-> -1,
   raw_order_json |-> hk.rawOrderJson, classification_note |-> NULL,
   insert |-> "pending"]

\* the row handed to insertWebhookLog (lines 633-646 and 701-714);
\* prior_order_count is -1 for null.  `insert` is not a column: it tells
\* whether the insert of the row is unanswered, stored or failed
WebhookLogRow(hk, name, priorOrderCount, note, now) ==
  [created_at |-> now, payment_id |-> hk.paymentId, event_name |-> name,
   subscription_plan_id |-> hk.subscriptionPlanId, prior_order_count |-> priorOrderCount,
   raw_order_json |-> hk.rawOrderJson, classification_note |-> note,
   insert |-> "pending"]

\* part_003 456-472: tableRef.insert of a keap_webhook_log row is answered;
\* a rejection is logged and swallowed by insertWebhookLog
WebhookLogAnswered(i, stored) ==
  /\ i \in 1..Len(webhookLog)
  /\ webhookLog[i].insert = "pending"
  /\ webhookLog' = [webhookLog EXCEPT ![i].insert = IF stored THEN "stored" ELSE "failed"]
  /\ UNCHANGED <<crm, recent, hooks>>
  /\ UNCHANGED queueVars

\* the same with sendMetaWithQueue awaited (line 785): processPayment stays
\* suspended until the delivery work of the event has ended
Enqueue_awaited(h, hk, name, priorOrderCount, note) ==
  /\ sendMetaWithQueue(queueMetadata(hk.paymentId, name), paymentCapiEvent(hk.paymentId, name))
  /\ webhookLog' = Append(webhookLog, WebhookLogRow(hk, name, priorOrderCount, note, clock))
  /\ hooks' = [hooks EXCEPT ![h] = [hk EXCEPT !.pc = "sendMetaWithQueue"]]
  /\ UNCHANGED <<crm, recent>>

\* lines 700-794: the classification is logged, the event is built and
\* handed to sendMetaWithQueue, which runs up to its PENDING insert
Enqueue(h, hk, name, priorOrderCount, note) ==
  /\ sendMetaWithQueue(queueMetadata(hk.paymentId, name), paymentCapiEvent(hk.paymentId, name))
  /\ webhookLog' = Append(webhookLog, WebhookLogRow(hk, name, priorOrderCount, note, clock))
  /\ hooks' = [hooks EXCEPT ![h] = AfterPayment(hk, FALSE, clock)]
  /\ UNCHANGED <<crm, recent>>

\* lines 483-605: getTransaction, getContactById, the tracking context and the
\* brand are fetched.  "throw": a Keap or BigQuery call rejects; "skip": the
\* transaction, its contact, the brand or the pixel is missing and
\* processPayment returns without an event; "ok": line 607 is reached (the
\* transactions of CrmSet carry an order id)
ProcessPaymentFetched(h, outcome) ==
  /\ hooks[h].pc = "getTransaction"
  /\ hooks' = [hooks EXCEPT ![h] =
                 CASE outcome = "throw" -> AfterPayment(@, TRUE, clock)
                   [] outcome = "skip" -> AfterPayment(@, FALSE, clock)
                   [] outcome = "ok" -> [@ EXCEPT !.pc = "getOrder"]]
  /\ UNCHANGED <<crm, recent, webhookLog>>
  /\ UNCHANGED queueVars

\* lines 616-673 and, where no subscription plan was found, 677-794:
\* keapClient.getOrder answers with the order ("ok"), with null ("notFound")
\* or rejects ("error")
ProcessPaymentOrder(h, outcome) ==
  /\ hooks[h].pc = "getOrder"
  /\ LET order == crm.order
         hk == [hooks[h] EXCEPT !.rawOrderJson = IF outcome = "ok" THEN <<order>> ELSE <<>>]
     IN  IF outcome = "ok" /\ installmentSkip(order, clock)
         THEN /\ webhookLog' = Append(webhookLog,
                                      WebhookLogRow(hk, NULL, -1, "installment_skip", clock))
              /\ hooks' = [hooks EXCEPT ![h] = AfterPayment(hk, FALSE, clock)]
              /\ UNCHANGED <<crm, recent>>
              /\ UNCHANGED queueVars
         ELSE IF outcome = "ok" /\ order.subscription_plan # 0
         THEN /\ hooks' = [hooks EXCEPT ![h] =
                             [hk EXCEPT !.pc = "getOrdersByContact",
                                        !.subscriptionPlanId = order.subscription_plan]]
              /\ UNCHANGED <<crm, recent, webhookLog>>
              /\ UNCHANGED queueVars
         ELSE Enqueue(h, [hk EXCEPT !.warnings = IF outcome = "error" THEN @ + 1 ELSE @],
                      defaultEventName, -1,
                      IF outcome = "ok" THEN "no_subscription_plan" ELSE NULL)

\* lines 679-698 with the catch logging the error and throwing it on
ProcessPaymentOrders_rethrow(h, outcome) ==
  /\ hooks[h].pc = "getOrdersByContact"
  /\ LET hk == hooks[h]
         priorOrderCount ==
           Cardinality(priorSubscriptionOrders(crm.paidOrders, hk.subscriptionPlanId,
                                               String(crm.order_ids)))
     IN  IF outcome = "ok"
         THEN Enqueue(h, hk, eventName(priorOrderCount), priorOrderCount, NULL)
         ELSE /\ hooks' = [hooks EXCEPT ![h] =
                             AfterPayment([hk EXCEPT !.warnings = @ + 1], TRUE, clock)]
              /\ UNCHANGED <<crm, recent, webhookLog>>
              /\ UNCHANGED queueVars

\* lines 679-794: keapClient.getOrdersByContact(contactId, 'PAID') answers
\* ("ok") or rejects ("error"); the event is named and enqueued
ProcessPaymentOrders(h, outcome) ==
  /\ hooks[h].pc = "getOrdersByContact"
  /\ LET hk == hooks[h]
         priorOrderCount ==
           Cardinality(priorSubscriptionOrders(crm.paidOrders, hk.subscriptionPlanId,
                                               String(crm.order_ids)))
     IN  IF outcome = "ok"
         THEN Enqueue(h, hk, eventName(priorOrderCount), priorOrderCount, NULL)
         ELSE Enqueue(h, [hk EXCEPT !.warnings = @ + 1], defaultEventName, -1,
                      "classification_error")

(* ------------------- Keap webhook: handler, Reconciler ------------------ *)
\* keapClient.getRecentTransactions(since, 50): the transactions Keap lists
\* that were created at `since` or later
getRecentTransactions(since) == {t \in recent : crm.date_created >= since}

\* Keap has assigned the id of the payment: getRecentTransactions lists it
TransactionReady ==
  /\ crm.paymentId \notin recent
  /\ recent' = recent \cup {crm.paymentId}
  /\ UNCHANGED <<crm, hooks, webhookLog>>
  /\ UNCHANGED queueVars

\* the object_keys of an invoice.payment.add call: the placeholder 0, or the
\* id of the payment once Keap has assigned it
ObjectKeys ==
  {<<0>>, <<0, 0>>} \cup UNION {{<<t>>, <<t, t>>, <<t, 0>>} : t \in recent}

\* request bodies that carry no payment event: no body at all (<<>>), no
\* event_key, no or empty object_keys (both <<>>), another event key
IgnoredBodies ==
  {<<>>} \cup
  ({<<[event_key |-> k, object_keys |-> o]>> :
      k \in {NULL, "invoice.payment.add", "order.add"}, o \in {<<>>, <<0>>}}
   \ {<<[event_key |-> "invoice.payment.add", object_keys |-> <<0>>]>>})

\* the same with the catch of line 383 passing the error on to the error
\* handler of the server
keapWebhookIgnored_rethrow(h, body) ==
  /\ hooks[h].pc = "none"
  /\ \A g \in HookIds : g < h => hooks[g].pc # "none"
  /\ hooks' = [hooks EXCEPT ![h] =
                 [IdleHook EXCEPT !.pc = "done", !.acked = TRUE,
                                  !.reply = IF body = <<>> THEN "error" ELSE "received",
                                  !.event_key = IF body = <<>> THEN NULL ELSE body[1].event_key]]
  /\ UNCHANGED <<crm, recent, webhookLog>>
  /\ UNCHANGED queueVars

\* POST /webhooks/keap/invoice-payment, lines 334-347 and 383-386: the
\* destructuring of a missing body throws into the catch of line 383, a body
\* without event_key or object_keys and an event key other than
\* invoice.payment.add return early; all three call ack()
keapWebhookIgnored(h, body) ==
  /\ hooks[h].pc = "none"
  /\ \A g \in HookIds : g < h => hooks[g].pc # "none"
  /\ hooks' = [hooks EXCEPT ![h] =
                 [IdleHook EXCEPT !.pc = "done", !.acked = TRUE, !.reply = "received",
                                  !.event_key = IF body = <<>> THEN NULL ELSE body[1].event_key]]
  /\ UNCHANGED <<crm, recent, webhookLog>>
  /\ UNCHANGED queueVars

\* POST /webhooks/keap/invoice-payment, lines 334-382 up to the first await
keapWebhook(h, object_keys) ==
  /\ hooks[h].pc = "none"
  /\ \A g \in HookIds : g < h => hooks[g].pc # "none"
  /\ LET immediate == SelectSeq(object_keys, LAMBDA paymentId : paymentId > 0)
         hk == [IdleHook EXCEPT !.event_key = "invoice.payment.add",
                                !.object_keys = object_keys,
                                !.immediate = immediate,
                                !.deferredCount = Len(object_keys) - Len(immediate)]
     IN  hooks' = [hooks EXCEPT ![h] =
                     IF immediate # <<>> THEN StartPayment(hk, Head(immediate), "handler")
                     ELSE HandlerEnd(hk, clock)]
  /\ UNCHANGED <<crm, recent, webhookLog>>
  /\ UNCHANGED queueVars

\* line 420: the timer of sleep(delays[i]) has fired; line 424 computes
\* `since` from Date.now(), kept in the since field, and line 425 issues
\* getRecentTransactions
ReconcileWake(h) ==
  /\ hooks[h].pc = "sleep"
  /\ clock >= hooks[h].since + delays[hooks[h].i + 1]
  /\ hooks' = [hooks EXCEPT ![h].pc = "getRecentTransactions", ![h].since = clock]
  /\ UNCHANGED <<crm, recent, webhookLog>>
  /\ UNCHANGED queueVars

\* line 425: keapClient.getRecentTransactions(since, 50) answers with the
\* recent transactions in some order ("ok"); line 428 issues the index query.
\* "error": the call rejects and line 454 ends the attempt.  `since` is not
\* read again.
ReconcileRecentTxns(h, outcome) ==
  /\ hooks[h].pc = "getRecentTransactions"
  /\ IF outcome = "ok"
     THEN \E txns \in Perms(getRecentTransactions(hooks[h].since - RecentWindowMinutes * MsPerMinute)) :
            hooks' = [hooks EXCEPT ![h].pc = "index", ![h].recentTxns = txns, ![h].since = 0]
     ELSE hooks' = [hooks EXCEPT ![h] = NextAttempt([@ EXCEPT !.i = @ + 1, !.since = 0], clock)]
  /\ UNCHANGED <<crm, recent, webhookLog>>
  /\ UNCHANGED queueVars

\* lines 428-453: getRecentlyProcessedTransactionIds(30) answers; the loop
\* over recentTxns runs up to its first processPayment call
ReconcileIndexRead(h) ==
  /\ hooks[h].pc = "index"
  /\ hooks' = [hooks EXCEPT ![h] =
                 ReconcileLoop([@ EXCEPT !.indexFailed = FALSE,
                                         !.alreadyProcessed =
                                            getRecentlyProcessedTransactionIds(DedupWindowMinutes, clock)],
                               clock)]
  /\ UNCHANGED <<crm, recent, webhookLog>>
  /\ UNCHANGED queueVars

\* the same with the index query failing: its catch (part_003 365-368) logs
\* the error and answers with an empty set
ReconcileIndexFailed(h) ==
  /\ hooks[h].pc = "index"
  /\ hooks' = [hooks EXCEPT ![h] =
                 ReconcileLoop([@ EXCEPT !.indexFailed = TRUE, !.alreadyProcessed = {}], clock)]
  /\ UNCHANGED <<crm, recent, webhookLog>>
  /\ UNCHANGED queueVars

\* line 957: the timer of sleep(delays[i]) of retryDeferredPayments has
\* fired; line 960 issues getRecentTransactionsForContact
RetryWake(h) ==
  /\ hooks[h].pc = "retrySleep"
  /\ clock >= hooks[h].since + retryDelays[hooks[h].i + 1]
  /\ hooks' = [hooks EXCEPT ![h].pc = "getRecentTransactionsForContact"]
  /\ UNCHANGED <<crm, recent, webhookLog>>
  /\ UNCHANGED queueVars

\* lines 960-977: keapClient.getRecentTransactionsForContact(contactId, 10)
\* answers with the transactions of the contact in some order ("ok") and the
\* loop runs up to its first processPayment call; "error": the call rejects
\* and line 978 ends the attempt
RetryRecentTxns(h, outcome) ==
  /\ hooks[h].pc = "getRecentTransactionsForContact"
  /\ IF outcome = "ok"
     THEN \E txns \in Perms(recent) :
            hooks' = [hooks EXCEPT ![h] = RetryLoop([@ EXCEPT !.recentTxns = txns], clock)]
     ELSE hooks' = [hooks EXCEPT ![h] = RetryNextAttempt([@ EXCEPT !.i = @ + 1], clock)]
  /\ UNCHANGED <<crm, recent, webhookLog>>
  /\ UNCHANGED queueVars

\* the instants at which a pending sleep of a Reconciler ends
TimerInstants ==
  {hooks[h].since + delays[hooks[h].i + 1] : h \in {g \in HookIds : hooks[g].pc = "sleep"}}
  \cup {hooks[h].since + retryDelays[hooks[h].i + 1] :
          h \in {g \in HookIds : hooks[g].pc = "retrySleep"}}

\* time passes until the earliest pending timer can fire
AdvanceToTimer ==
  /\ TimerInstants # {}
  /\ LET t == CHOOSE x \in TimerInstants : \A y \in TimerInstants : x <= y
     IN  /\ t > clock
         /\ SendsReturnBy(t)
         /\ clock' = t
  /\ UNCHANGED <<hasToken, requests, nextId, ledger, smq, worker, senderCalls, senderFails, lostInserts, hookVars>>

(* ---------------------------- specifications --------------------------- *)
SmqStep(q) ==
  \/ SmqPendingInserted(q)
  \/ SmqSend(q)
  \/ \E jitterMs \in JitterSet : SmqNoToken(q, jitterMs)
  \/ \E success \in BOOLEAN, jitterMs \in JitterSet : SmqSendReturn(q, success, jitterMs)
  \/ SmqRecorded(q)

WorkerStep(w) ==
  \/ WorkerTick(w)
  \/ WorkerScanned(w)
  \/ WorkerSend(w)
  \/ \E success \in BOOLEAN, jitterMs \in JitterSet : WorkerSendReturn(w, success, jitterMs)
  \/ WorkerRecorded(w)

WorkerStepNoToken(w) == \E jitterMs \in JitterSet : WorkerNoToken(w, jitterMs)

\* one server process: request handlers and one replay worker; every insert
\* succeeds
Next ==
  \/ ClockTick
  \/ AdvanceToDue
  \/ \E metadata \in MetadataSet :
       sendMetaWithQueue(metadata, CapiEventFor(metadata)) /\ UNCHANGED hookVars
  \/ \E q \in QueueIds : SmqStep(q)
  \/ WorkerStep(1)
  \/ WorkerStepNoToken(1)

Spec == Init /\ [][Next]_vars

\* the same process on a ledger whose inserts can fail
NextLossy ==
  \/ Next
  \/ \E q \in QueueIds : SmqPendingInsertFailed(q) \/ SmqRecordFailed(q)
  \/ WorkerRecordFailed(1)

SpecLossy == Init /\ [][NextLossy]_vars

\* Two server processes (two instances of the service) on one ledger, each
\* with its own replay worker.  The ledger holds one event that has failed
\* four times, one attempt after the other: sendMetaWithQueue was called at 0,
\* sendEvent returned success:false at 2, and each of three retries started
\* at the instant it became due and was answered a millisecond later.
Init2W ==
  LET purchase == CHOOSE m \in MetadataSet : m.source = "purchase"
      base == baseRecord(1, purchase, CapiEventFor(purchase), 0)
      r1 == statusRow(base, 1, FALSE, 2, 0)
      r2 == statusRow(r1, 2, FALSE, r1.next_attempt_at + 1, 0)
      r3 == statusRow(r2, 3, FALSE, r2.next_attempt_at + 1, 0)
      r4 == statusRow(r3, 4, FALSE, r3.next_attempt_at + 1, 0)
  IN  /\ clock = r4.updated_at + 1
      /\ hasToken = TRUE
      /\ requests = 0
      /\ nextId = 1
      /\ ledger = [q \in QueueIds |-> IF q = 1 THEN <<base, r1, r2, r3, r4>> ELSE <<>>]
      /\ smq = [q \in QueueIds |-> IF q = 1 THEN [IdleSmq EXCEPT !.pc = "done"] ELSE IdleSmq]
      /\ worker = [w \in WorkerIds |-> IdleWorker]
      /\ senderCalls = [q \in QueueIds |-> IF q = 1 THEN 4 ELSE 0]
      /\ senderFails = [q \in QueueIds |-> IF q = 1 THEN 4 ELSE 0]
      /\ lostInserts = 0
      /\ NoWebhooks

Next2W ==
  \/ ClockTick
  \/ AdvanceToDue
  \/ \E w \in WorkerIds : WorkerStep(w)

Spec2W == Init2W /\ [][Next2W]_vars

\* One server process whose interval can fire again while a tick is running.
\* The ledger holds two events whose immediate attempt left no row: a
\* subscribe event stored at 0 whose payload text is not JSON, and a purchase
\* event stored at 1.  The access token of each brand is set.
InitTick ==
  LET subscribe == CHOOSE m \in MetadataSet : m.source = "subscribe"
      purchase == CHOOSE m \in MetadataSet : m.source = "purchase"
      b1 == [baseRecord(1, subscribe, CapiEventFor(subscribe), 0) EXCEPT !.capi_payload_json = <<>>]
      b2 == baseRecord(2, purchase, CapiEventFor(purchase), 1)
  IN  /\ clock = 2
      /\ hasToken = TRUE
      /\ requests = 0
      /\ nextId = 2
      /\ ledger = [q \in QueueIds |-> IF q = 1 THEN <<b1>> ELSE IF q = 2 THEN <<b2>> ELSE <<>>]
      /\ smq = [q \in QueueIds |-> IF q <= 2 THEN [IdleSmq EXCEPT !.pc = "done"] ELSE IdleSmq]
      /\ worker = [w \in WorkerIds |-> IdleWorker]
      /\ senderCalls = [q \in QueueIds |-> 0]
      /\ senderFails = [q \in QueueIds |-> 0]
      /\ lostInserts = 0
      /\ NoWebhooks

NextTick ==
  \/ ClockTick
  \/ AdvanceToDue
  \/ \E w \in WorkerIds : tick(w)
  \/ \E w \in WorkerIds : WorkerTickSkipped(w)
  \/ \E w \in WorkerIds : WorkerScanned(w)
  \/ \E w \in WorkerIds : WorkerScanFailed(w)
  \/ \E w \in WorkerIds : WorkerSend(w)
  \/ \E w \in WorkerIds : WorkerParseFailed(w)
  \/ \E w \in WorkerIds : \E success \in BOOLEAN, jitterMs \in JitterSet : WorkerSendReturn(w, success, jitterMs)
  \/ \E w \in WorkerIds : WorkerRecorded(w)
  \/ \E w \in WorkerIds : WorkerRecordFailed(w)

SpecTick == InitTick /\ [][NextTick]_vars

\* the scheduling the liveness claims assume: the interval keeps firing, every
\* Sender call and every insert is answered, and time passes
FairSpec ==
  /\ Spec
  /\ WF_vars(ClockTick)
  /\ SF_vars(AdvanceToDue)
  /\ \A q \in QueueIds : WF_vars(SmqStep(q))
  /\ WF_vars(WorkerStep(1))
  /\ WF_vars(WorkerStepNoToken(1))

\* the outcomes of the Keap calls of processPayment and of the Reconciler
FetchOutcomes == {"ok", "skip", "throw"}
OrderOutcomes == {"ok", "notFound", "error"}
CallOutcomes == {"ok", "error"}

PaymentStep(h) ==
  \/ \E outcome \in FetchOutcomes : ProcessPaymentFetched(h, outcome)
  \/ \E outcome \in OrderOutcomes : ProcessPaymentOrder(h, outcome)
  \/ \E outcome \in CallOutcomes : ProcessPaymentOrders(h, outcome)

ReconcileStep(h) ==
  \/ ReconcileWake(h)
  \/ \E outcome \in CallOutcomes : ReconcileRecentTxns(h, outcome)
  \/ ReconcileIndexRead(h)
  \/ ReconcileIndexFailed(h)

\* the Keap webhook route of one server process with the delivery queue
\* behind it (the replay worker acts on events already enqueued and is left
\* to Spec)
NextHook ==
  \/ ClockTick
  \/ AdvanceToTimer
  \/ TransactionReady
  \/ \E h \in HookIds : \E object_keys \in ObjectKeys : keapWebhook(h, object_keys)
  \/ \E h \in HookIds : \E body \in IgnoredBodies : keapWebhookIgnored(h, body)
  \/ \E h \in HookIds : PaymentStep(h)
  \/ \E h \in HookIds : ReconcileStep(h)
  \/ \E q \in QueueIds : SmqStep(q)

\* one webhook call about one payment out of CrmSet
InitHook ==
  /\ InitQueue
  /\ hasToken \in BOOLEAN
  /\ requests = MaxQueueIds
  /\ crm \in CrmSet
  /\ recent = {}
  /\ hooks = [h \in HookIds |-> IF h = 1 THEN IdleHook ELSE OffHook]
  /\ webhookLog = <<>>

SpecHook == InitHook /\ [][NextHook]_vars

\* the same route on a ledger whose inserts can fail
NextHookLossy ==
  \/ NextHook
  \/ \E q \in QueueIds : SmqPendingInsertFailed(q) \/ SmqRecordFailed(q)

SpecHookLossy == InitHook /\ [][NextHookLossy]_vars

\* the route with the inserts of the keap_webhook_log rows answered; the
\* delivery work of the events it enqueues (SmqStep) is left to SpecHook
NextHookLog ==
  \/ AdvanceToTimer
  \/ TransactionReady
  \/ \E h \in HookIds : \E object_keys \in ObjectKeys : keapWebhook(h, object_keys)
  \/ \E h \in HookIds : PaymentStep(h)
  \/ \E h \in HookIds : ReconcileStep(h)
  \/ \E i \in 1..MaxQueueIds + 1, stored \in BOOLEAN : WebhookLogAnswered(i, stored)

SpecHookLog == InitHook /\ [][NextHookLog]_vars

\* the scheduling under which the handler is answered: the calls it awaits
\* (Keap reads inside processPayment) are answered; nothing is assumed of the
\* Sender, of the ledger, of the timers or of the clock
FairSpecHook == SpecHook /\ \A h \in HookIds : WF_vars(PaymentStep(h))

\* the contact-scoped variant of the route (retryDeferredPayments).  A call
\* with object_keys [{id: 845325}, {id: 0}] arrived at 0: processPayment(845325)
\* returned the contact id without an event (no brand found for the contact),
\* the handler started retryDeferredPayments(contactId, 1, {845325}) and
\* acknowledged.  The upsell transaction 900050 of the contact is not ready.
InitRetry ==
  /\ InitQueue
  /\ hasToken \in BOOLEAN
  /\ requests = MaxQueueIds
  /\ crm = UpsellCrm
  /\ recent = {845325}
  /\ hooks = [h \in HookIds |->
                IF h = 1
                THEN [IdleHook EXCEPT !.pc = "retrySleep", !.event_key = "invoice.payment.add",
                                      !.object_keys = <<845325, 0>>, !.reply = "received",
                                      !.deferredCount = 1, !.acked = TRUE,
                                      !.paymentId = 845325, !.processedTxnIds = {845325}]
                ELSE OffHook]
  /\ webhookLog = <<>>

\* a step of the contact-scoped Reconciler of call h
RetryStep(h) ==
  \/ RetryWake(h)
  \/ \E outcome \in CallOutcomes : RetryRecentTxns(h, outcome)

\* the Reconciler in its two variants: a call to the global variant about any
\* payment of CrmSet, or the contact-scoped run described above
InitReconcile == InitHook \/ InitRetry

NextReconcile ==
  \/ NextHook
  \/ \E h \in HookIds : RetryStep(h)

SpecReconcile == InitReconcile /\ [][NextReconcile]_vars

\* the scheduling under which a Reconciler run ends: time passes, timers
\* fire, and every call that is awaited is answered, by a value or by an error
ReconcileProgress ==
  \/ ClockTick
  \/ AdvanceToTimer
  \/ \E q \in QueueIds : SmqStep(q)
  \/ \E h \in HookIds : PaymentStep(h) \/ ReconcileStep(h) \/ RetryStep(h)

FairSpecReconcile == SpecReconcile /\ WF_vars(ReconcileProgress)

\* Two webhook calls that carried only the placeholder key arrived together
\* at 0.  The upsell transaction was not ready: the first two attempts of both
\* Reconcilers, at 15 s and at 45 s, found no transaction, and each Reconciler
\* sleeps before its third attempt.
InitHook2 ==
  LET wokeAt == delays[1] + delays[2]
      sleeping == [IdleHook EXCEPT !.pc = "sleep", !.event_key = "invoice.payment.add",
                                   !.object_keys = <<0>>, !.reply = "received",
                                   !.deferredCount = 1, !.acked = TRUE,
                                   !.i = 2, !.since = wokeAt]
  IN  /\ clock = wokeAt
      /\ hasToken \in BOOLEAN
      /\ requests = MaxQueueIds
      /\ nextId = 0
      /\ ledger = [q \in QueueIds |-> <<>>]
      /\ smq = [q \in QueueIds |-> IdleSmq]
      /\ worker = [w \in WorkerIds |-> IdleWorker]
      /\ senderCalls = [q \in QueueIds |-> 0]
      /\ senderFails = [q \in QueueIds |-> 0]
      /\ lostInserts = 0
      /\ crm \in {c \in CrmSet : c.paymentId = 900050}
      /\ recent = {}
      /\ hooks = [h \in HookIds |-> IF h <= 2 THEN sleeping ELSE OffHook]
      /\ webhookLog = <<>>

\* the two Reconcilers from there on
NextHook2 ==
  \/ ClockTick
  \/ AdvanceToTimer
  \/ TransactionReady
  \/ \E h \in HookIds : PaymentStep(h)
  \/ \E h \in HookIds : ReconcileStep(h)
  \/ \E q \in QueueIds : SmqStep(q)

SpecHook2 == InitHook2 /\ [][NextHook2]_vars

(* ------------------------- vocabulary of the claims -------------------- *)
\* the queue id the worker w is currently attempting
WorkerQueueId(w) == Head(worker[w].events).queue_id

\* an attempt for q is in flight: its Sender call or the insert of its row
\* has not been answered yet
AttemptInFlight(q) ==
  \/ smq[q].pc \in {"insertPending", "attempt", "sending", "recording"}
  \/ \E w \in WorkerIds : worker[w].pc \in {"sending", "recording"} /\ WorkerQueueId(w) = q

Terminal(r) == r.status \in {"SENT", "DEAD"}

\* every row the latest-row query can return for q is terminal
AuthTerminal(q) == ledger[q] # <<>> /\ \A r \in LatestRows(q) : Terminal(r)

\* the payments of CrmSet
PaymentIds == {c.paymentId : c \in CrmSet}

\* the dedup key of a payment as the documentation writes it
\* ("purchase_txn_845325") and the entry the Dedup Index holds for it ("845325")
ExpectedEventId(t) ==
  CASE t = 845325 -> "purchase_txn_845325"
    [] t = 900001 -> "purchase_txn_900001"
    [] t = 900050 -> "purchase_txn_900050"

ExpectedIndexEntry(t) ==
  CASE t = 845325 -> "845325" [] t = 900001 -> "900001" [] t = 900050 -> "900050"

\* the delivery events (queue ids) created for payment t
EventsFor(t) ==
  {q \in QueueIds : smq[q].pc # "none" /\ smq[q].baseRecord.event_id = ExpectedEventId(t)}

\* payment t has a ledger row inside the window of the Dedup Index at `now`
InDedupIndex(t, now) ==
  \E q \in QueueIds : \E r \in Rows(q) :
    r.event_id = ExpectedEventId(t) /\ r.created_at >= now - 30 * 60000

\* the positions inside processPayment
PaymentPcs == {"getTransaction", "getOrder", "getOrdersByContact"}

\* the Classifier reached a verdict other than Skip for payment t
Billable(t) == \E row \in Range(webhookLog) : row.payment_id = t /\ row.event_name # NULL

(* -------------------------------- claims -------------------------------- *)
\* C1: whenever no attempt for a queue id is in flight, the attempt_count of
\* its authoritative row equals the number of Sender invocations made for it
\* (stated for a process whose access token is set, where every attempt is a
\* Sender invocation).
C1_AttemptCountIsSenderCalls ==
  \A q \in QueueIds :
    (hasToken /\ ledger[q] # <<>> /\ ~AttemptInFlight(q)) =>
      \A r \in LatestRows(q) : r.attempt_count = senderCalls[q]

\* C2: the replay worker never has a Sender call in flight for a queue id
\* whose immediate first attempt is still in flight or not yet recorded.
C2_NoWorkerSendDuringImmediateAttempt ==
  \A w \in WorkerIds :
    worker[w].pc = "sending" => smq[WorkerQueueId(w)].pc = "done"

\* C3: once the authoritative row of a queue id is SENT or DEAD, no further
\* row is appended for it and Sender is not invoked for it again.
C3_TerminalIsFinal ==
  [][\A q \in QueueIds :
       AuthTerminal(q) => /\ ledger'[q] = ledger[q]
                          /\ senderCalls'[q] = senderCalls[q]]_vars

\* C4: under the fair scheduling, every event whose PENDING row was appended
\* eventually has a terminal (SENT or DEAD) latest row.
C4_EventuallyTerminal ==
  \A q \in QueueIds :
    (ledger[q] # <<>>) ~> (\E r \in LatestRows(q) : Terminal(r))

\* an event was delivered by a retry after failed attempts
C4_Witness ==
  \E q \in QueueIds : \E r \in LatestRows(q) : r.status = "SENT" /\ r.attempt_count >= 3

\* C5: after six Sender calls for one queue id that all returned
\* success:false, the latest row is DEAD with attempt_count 6.
C5_SixFailuresAreDead ==
  \A q \in QueueIds :
    (senderCalls[q] = 6 /\ senderFails[q] = 6 /\ ~AttemptInFlight(q)) =>
      \A r \in LatestRows(q) : r.status = "DEAD" /\ r.attempt_count = 6

\* C6: a row of a failed attempt k that is not DEAD is FAILED and schedules
\* the retry min(2^k, 60) minutes plus less than 30 seconds after its own
\* timestamp; a row of a successful attempt is SENT with next_attempt_at = now.
C6_BackoffWindow ==
  \A q \in QueueIds : \A r \in Rows(q) :
    r.attempt_count >= 1 =>
      IF r.last_error_message = NULL
      THEN r.status = "SENT" /\ r.next_attempt_at = r.updated_at
      ELSE \/ r.status = "DEAD"
           \/ /\ r.status = "FAILED"
              /\ LET delay == r.next_attempt_at - r.updated_at
                     minutes == IF Pow2(r.attempt_count) < 60 THEN Pow2(r.attempt_count) ELSE 60
                 IN  minutes * 60000 <= delay /\ delay < minutes * 60000 + 30000

\* the fifth attempt failed and was scheduled with the largest jitter
C6_Witness ==
  \E q \in QueueIds : \E r \in Rows(q) :
    /\ r.status = "FAILED"
    /\ r.attempt_count = 5
    /\ r.next_attempt_at - r.updated_at = 32 * 60000 + 29999

\* C7: failed attempts 1..6 are all scheduled for a retry (delays 2, 4, 8, 16,
\* 32, 60 minutes); an event is DEAD only at attempt 7 or later.
C7_SixDelaysBeforeDead ==
  \A q \in QueueIds : \A r \in Rows(q) :
    (r.last_error_message # NULL /\ r.attempt_count <= 6) => r.status = "FAILED"

\* C8: every step leaves the rows already in the ledger unchanged and in
\* place; what it adds for a queue id are rows with that queue_id.
C8_AppendOnly ==
  [][\A q \in QueueIds :
       /\ Len(ledger'[q]) >= Len(ledger[q])
       /\ SubSeq(ledger'[q], 1, Len(ledger[q])) = ledger[q]
       /\ \A i \in 1..Len(ledger'[q]) : ledger'[q][i].queue_id = q]_vars

\* a status change was written: the PENDING row is still there, followed by
\* the rows of two attempts
C8_Witness ==
  \E q \in QueueIds :
    /\ Len(ledger[q]) >= 3
    /\ ledger[q][1].status = "PENDING"
    /\ ledger[q][3].status # "PENDING"

\* C9: the rows of a queue id have strictly increasing updated_at in the
\* order in which they were written.
C9_StrictlyIncreasingUpdatedAt ==
  \A q \in QueueIds : \A i, j \in 1..Len(ledger[q]) :
    i < j => ledger[q][i].updated_at < ledger[q][j].updated_at

\* C10: with two replay workers, the authoritative attempt_count never
\* decreases, a SENT queue id never becomes FAILED or DEAD, and Sender is
\* invoked at most 6 times per queue id.
C10_SafeUnderTwoWorkers ==
  [][\A q \in QueueIds :
       /\ \A r \in LatestRows(q) : \A n \in LatestRows(q)' :
            /\ n.attempt_count >= r.attempt_count
            /\ r.status = "SENT" => n.status \notin {"FAILED", "DEAD"}
       /\ senderCalls'[q] <= 6]_vars

\* C11: when the index query of a Reconciler attempt answers while payment T
\* has a ledger row with event_id purchase_txn_T inside the window, the attempt
\* does not call processPayment(T): no queue id is minted, no row is appended
\* and Sender is not invoked by it, at every attempt of every run.
C11_IndexedTransactionNotProcessed ==
  [][\A h \in HookIds :
       (hooks[h].pc = "index" /\ hooks'[h].pc # "index" /\ ~hooks'[h].indexFailed) =>
         \A t \in PaymentIds :
           InDedupIndex(t, clock) =>
             /\ ~(hooks'[h].pc \in PaymentPcs /\ hooks'[h].paymentId = t)
             /\ nextId' = nextId
             /\ ledger' = ledger
             /\ senderCalls' = senderCalls]_vars

\* a Reconciler has read the index with the payment in it at two attempts and
\* skipped it both times
C11_Witness ==
  \E h \in HookIds :
    /\ hooks[h].i >= 2
    /\ hooks[h].pc \in {"sleep", "done"}
    /\ ~hooks[h].indexFailed
    /\ ExpectedIndexEntry(crm.paymentId) \in hooks[h].alreadyProcessed
    /\ Cardinality(EventsFor(crm.paymentId)) = 1

\* C12: two Reconcilers of different webhook calls never both enqueue a
\* delivery event for the same transaction id.
C12_ReconcilersNeverBothEnqueue ==
  \A g, h \in HookIds : \A t \in PaymentIds :
    (g # h /\ t \in hooks[g].reconciled /\ t \in hooks[h].reconciled) =>
      Cardinality(EventsFor(t)) <= 1

\* C13: for every transaction id T at most one delivery event (queue id) with
\* event_id purchase_txn_T is ever created.
C13_AtMostOneEventPerTransaction ==
  \A t \in PaymentIds : \A p, q \in QueueIds :
    (smq[p].pc # "none" /\ smq[q].pc # "none" /\
     smq[p].baseRecord.event_id = ExpectedEventId(t) /\
     smq[q].baseRecord.event_id = ExpectedEventId(t)) => p = q

C15_NoPlanIsPurchase ==
  \A row \in Range(webhookLog) :
    (row.payment_id = crm.paymentId /\ crm.order.subscription_plan = 0) =>
      row.event_name = "Purchase"

\* C16: for a payment whose fetched order carries plan P and was created
\* today, and whose contact's paid orders were fetched, the event is
\* RecurringPayment iff the contact has another paid order with plan P, and
\* Purchase iff it has none; the order itself is not counted.
C16_RecurringIffPriorPaidOrder ==
  \A row \in Range(webhookLog) :
    (/\ row.raw_order_json # <<>>
     /\ row.subscription_plan_id # 0
     /\ row.classification_note # "classification_error") =>
      LET order == row.raw_order_json[1]
          others == {o \in crm.paidOrders :
                       o.id # order.id /\ o.subscription_plan = order.subscription_plan}
      IN  /\ order.creation_date[1] \div 86400000 = row.created_at \div 86400000
          /\ row.event_name = "RecurringPayment" <=> others # {}
          /\ row.event_name = "Purchase" <=> others = {}
          /\ row.prior_order_count = Cardinality(others)

\* payment 900001 on plan 7 with two prior paid orders on plan 7 was classified
C16_Witness ==
  \E row \in Range(webhookLog) :
    /\ row.payment_id = 900001
    /\ row.subscription_plan_id = 7
    /\ row.prior_order_count = 2
    /\ row.event_name = "RecurringPayment"

\* C17: when processPayment has fetched an order whose creation date is not
\* today, it generates no event: no queue id is minted, no ledger row is
\* appended and Sender is not invoked.
C17_OldOrderGeneratesNoEvent ==
  [][\A row \in Range(webhookLog') :
       (/\ Len(webhookLog') > Len(webhookLog)
        /\ row = webhookLog'[Len(webhookLog')]
        /\ row.raw_order_json # <<>>
        /\ row.raw_order_json[1].creation_date # <<>>
        /\ row.raw_order_json[1].creation_date[1] \div 86400000 # row.created_at \div 86400000) =>
         /\ row.event_name = NULL
         /\ nextId' = nextId
         /\ smq' = smq
         /\ ledger' = ledger
         /\ senderCalls' = senderCalls]_vars

\* a payment on an order of yesterday was processed and nothing was enqueued
C17_Witness ==
  /\ \E row \in Range(webhookLog) : row.classification_note = "installment_skip"
  /\ nextId = 0
  /\ \E h \in HookIds : hooks[h].pc = "done" /\ hooks[h].object_keys = <<crm.paymentId>>

\* C18: when fetching the order or fetching the contact's paid orders fails,
\* processPayment does not fail: it classifies the payment Purchase and hands
\* the Purchase event to sendMetaWithQueue.
C18_ClassificationErrorIsPurchase ==
  [][\A h \in HookIds :
       hooks'[h].warnings > hooks[h].warnings =>
         /\ nextId' = nextId + 1
         /\ smq'[nextId'].pc = "insertPending"
         /\ smq'[nextId'].baseRecord.event_name = "Purchase"
         /\ smq'[nextId'].baseRecord.event_id = ExpectedEventId(hooks[h].paymentId)
         /\ Len(webhookLog') = Len(webhookLog) + 1
         /\ LET row == webhookLog'[Len(webhookLog')]
            IN  row.payment_id = hooks[h].paymentId /\ row.event_name = "Purchase"
         /\ hooks[h].caller = "reconciler" => hooks[h].paymentId \in hooks'[h].reconciled]_vars

\* the paid orders of a subscription payment could not be fetched and its
\* Purchase event was sent
C18_Witness ==
  \E row \in Range(webhookLog) :
    /\ row.classification_note = "classification_error"
    /\ row.subscription_plan_id = 7
    /\ \E q \in EventsFor(row.payment_id) :
         smq[q].baseRecord.event_name = "Purchase" /\ senderCalls[q] = 1

C22_AckNeverWaitsForDelivery ==
  \A h \in HookIds : (hooks[h].pc \notin {"none", "off"}) ~> hooks[h].acked

\* a call was acknowledged while the PENDING insert of its event was still
\* unanswered and its Reconciler slept
C22_Witness ==
  \E h \in HookIds : \E q \in QueueIds :
    /\ hooks[h].acked
    /\ hooks[h].pc = "sleep"
    /\ smq[q].pc = "insertPending"
    /\ senderCalls[q] = 0

\* the rows of q that record an attempt (attempt_count >= 1)
AttemptRows(q) == {i \in 1..Len(ledger[q]) : ledger[q][i].attempt_count >= 1}

\* C23: while the access token of the brand is missing, Sender is never
\* called; every attempt appends a failure row that is FAILED with a
\* next_attempt_at at least 2 minutes after it, or DEAD; an event is attempted
\* at most 6 times and is DEAD after the sixth; and the row a tick attempts
\* from is the one of the last attempt made (no attempt row of the event is
\* newer than the row the tick selected).
C23_MissingCredentialBacksOff ==
  ~hasToken =>
    \A q \in QueueIds :
      /\ senderCalls[q] = 0
      /\ \A i \in AttemptRows(q) :
           LET r == ledger[q][i]
           IN  /\ r.last_error_message # NULL
               /\ \/ r.status = "DEAD"
                  \/ r.status = "FAILED" /\ r.next_attempt_at >= r.updated_at + 2 * 60000
      /\ Cardinality(AttemptRows(q)) <= 6
      /\ (Cardinality(AttemptRows(q)) = 6 /\ ~AttemptInFlight(q)) =>
           \A r \in LatestRows(q) : r.status = "DEAD"
      /\ \A w \in WorkerIds :
           (worker[w].pc = "recording" /\ WorkerQueueId(w) = q) =>
             Head(worker[w].events).attempt_count = Cardinality(AttemptRows(q))

\* the values of a contact that are personal data
PiiValues(c) ==
  {c.email, c.firstName, c.lastName, c.phone, c.city, c.state, c.zip, String(c.id)} \ {NULL}

\* the digests Meta expects for the two contacts (lowercase, trimmed, hashed)
ExpectedUserData(c) ==
  IF c.id = 5512
  THEN [em |-> "sha256(ann.lee@mail.io)", fn |-> "sha256(ann)", ln |-> "sha256(lee)",
        ph |-> "sha256(+1 555 0100)", external_id |-> "sha256(5512)",
        ct |-> "sha256(austin)", st |-> "sha256(tx)", zp |-> "sha256(73301)"]
  ELSE [em |-> "sha256(bo@mail.io)", external_id |-> "sha256(5513)"]

\* C24: in every ledger row, written by sendMetaWithQueue or by
\* recordAttemptResult, for a subscribe or a purchase event, the payload holds
\* for email, names, phone, address and contact id the digests only, and no
\* value of the payload is a raw personal value of a contact.
C24_PayloadHoldsHashedPiiOnly ==
  \A q \in QueueIds : \A r \in Rows(q) :
    LET payload == r.capi_payload_json[1]
        contact == IF r.email = FullContact.email THEN FullContact ELSE BareContact
        raw == PiiValues(FullContact) \cup PiiValues(BareContact)
        expected == ExpectedUserData(contact)
    IN  /\ \A k \in DOMAIN payload.user_data : payload.user_data[k] \notin raw
        /\ DOMAIN payload.user_data \subseteq DOMAIN expected \cup {"fbp", "client_ip_address"}
        /\ \A k \in DOMAIN expected :
             k \in DOMAIN payload.user_data /\ payload.user_data[k] = expected[k]
        /\ payload.event_id \notin raw
        /\ \A i \in 1..Len(payload.custom_data) :
             payload.custom_data[i].order_id \notin raw /\ payload.custom_data[i].currency \notin raw

\* the replay worker has written a row for a purchase event of a contact
\* with phone and address
C24_Witness ==
  \E q \in QueueIds : \E r \in Rows(q) :
    /\ r.source = "purchase"
    /\ r.attempt_count >= 2
    /\ r.email = " Ann.Lee@Mail.io"
    /\ r.capi_payload_json[1].user_data["ph"] = "sha256(+1 555 0100)"

\* the positions of a Reconciler run that has not ended
ReconcilerPcs == {"sleep", "getRecentTransactions", "index", "retrySleep", "getRecentTransactionsForContact"}

\* the Reconciler of call h is running
Reconciling(h) ==
  \/ hooks[h].pc \in ReconcilerPcs
  \/ hooks[h].pc \in PaymentPcs /\ hooks[h].caller \in {"reconciler", "retry"}

\* C25: a Reconciler run in either variant makes at most 3 attempts, begins
\* the delay of an attempt only while fewer transactions than the expected
\* count are resolved, and ends with its closing log line (RESOLVED or
\* EXHAUSTED) whatever the CRM and index queries answer or throw.
C25_ReconcilerTerminates ==
  /\ [](\A h \in HookIds : hooks[h].i <= 3)
  /\ [][\A h \in HookIds :
         (hooks'[h].pc \in {"sleep", "retrySleep"} /\ hooks'[h] # hooks[h]) =>
           /\ hooks'[h].i < 3
           /\ Cardinality(hooks'[h].reconciled) < hooks'[h].deferredCount]_vars
  /\ \A h \in HookIds :
       Reconciling(h) ~> (hooks[h].pc = "done" /\ hooks[h].log \in {"complete", "warn"})

\* a run of the global variant made its three attempts, the index query of
\* the last failed, and it ended EXHAUSTED although the transaction was listed
C25_Witness ==
  \E h \in HookIds :
    /\ hooks[h].pc = "done"
    /\ hooks[h].i = 3
    /\ hooks[h].indexFailed
    /\ hooks[h].log = "warn"
    /\ crm.paymentId \in recent

\* C26: a Reconciler run that ends with fewer newly resolved transactions
\* than the expected placeholder count has logged the warning.
C26_ExhaustedLogsWarning ==
  \A h \in HookIds :
    (hooks[h].pc = "done" /\ hooks[h].deferredCount > 0 /\
     Cardinality(hooks[h].reconciled) < hooks[h].deferredCount) =>
      hooks[h].log = "warn"

(* --------------------------- process restart ---------------------------- *)
\* The server process ends and a new one is started (index.ts main()).  What
\* lived in the memory of the old process is gone: the calls being handled,
\* the Reconcilers (the promises started at lines 377 and 910 are referenced
\* by nothing outside the process, and neither handler nor start() stores or
\* reads back a pending placeholder), the sendMetaWithQueue calls in flight
\* and the worker's tick.  The ledger, the CRM and the clock are outside the
\* process.
ProcessRestart ==
  /\ \E h \in HookIds : Reconciling(h)
  /\ hooks' = [h \in HookIds |->
                 IF Reconciling(h) THEN [hooks[h] EXCEPT !.pc = "interrupted"]
                 ELSE IF hooks[h].pc \in {"none", "off", "done", "interrupted", "aborted"}
                      THEN hooks[h]
                      ELSE [hooks[h] EXCEPT !.pc = "aborted"]]
  /\ smq' = [q \in QueueIds |->
               IF smq[q].pc \in {"none", "done"} THEN smq[q]
               ELSE [smq[q] EXCEPT !.pc = "done"]]
  /\ worker' = [w \in WorkerIds |-> IdleWorker]
  /\ UNCHANGED <<clock, hasToken, requests, nextId, ledger, senderCalls, senderFails, lostInserts,
                 crm, recent, webhookLog>>

\* the route and its Reconcilers in a process that can be restarted
NextRestart ==
  \/ NextReconcile
  \/ ProcessRestart

SpecRestart == InitReconcile /\ [][NextRestart]_vars

\* the scheduling of FairSpecReconcile, and the transaction does appear
FairSpecRestart ==
  SpecRestart /\ WF_vars(ReconcileProgress) /\ WF_vars(TransactionReady)

\* C27: a Reconciler run interrupted by a process restart is continued
\* afterwards: once the transaction of the payment is listed by the CRM, a
\* Reconciler is at work on the placeholder again or has resolved the
\* transaction.
C27_RestartResumesReconciler ==
  \A h \in HookIds :
    (hooks[h].pc = "interrupted" /\ crm.paymentId \in recent) ~>
      (\E g \in HookIds : Reconciling(g) \/ crm.paymentId \in hooks[g].reconciled)

\* the limits the scan is asked with: the worker's 50, and limits that cut
\* a result short
ScanLimits == (1..MaxQueueIds) \cup {ReplayLimit}

\* C30: whatever the ledger holds, a result of getRetryableMetaEvents(limit)
\* has at most limit rows, at most one row per queue_id, each a row of
\* maximum updated_at of its queue_id, PENDING or FAILED and due, in
\* ascending order of next_attempt_at; and it has no row of a queue_id whose
\* row of maximum updated_at is SENT or DEAD.
C30_DueForRetryResult ==
  \A limit \in ScanLimits : \A s \in getRetryableMetaEvents(limit, clock) :
    /\ Len(s) <= limit
    /\ \A i, j \in 1..Len(s) : i # j => s[i].queue_id # s[j].queue_id
    /\ \A i \in 1..Len(s) :
         /\ s[i] \in Rows(s[i].queue_id)
         /\ \A o \in Rows(s[i].queue_id) : o.updated_at <= s[i].updated_at
         /\ s[i].status \in {"PENDING", "FAILED"}
         /\ s[i].next_attempt_at <= clock
    /\ \A i, j \in 1..Len(s) : i < j => s[i].next_attempt_at <= s[j].next_attempt_at
    /\ \A q \in QueueIds :
         (\E r \in Rows(q) : /\ r.status \in {"SENT", "DEAD"}
                             /\ \A o \in Rows(q) : o.updated_at <= r.updated_at)
           => \A i \in 1..Len(s) : s[i].queue_id # q

\* the invocations of tick whose body is executing (past line 849)
TickBodies == {w \in WorkerIds : worker[w].pc \notin {"idle", "skipped"}}

\* C28: in one process at most one body of tick is executing at any time, and
\* an invocation made while a body is executing (awaiting its scan, a Sender
\* call or an append) starts no scan and no Sender call.
C28_SingleFlight ==
  /\ [](Cardinality(TickBodies) <= 1)
  /\ [][\A w \in WorkerIds :
          (w \notin TickBodies /\ TickBodies # {}) =>
            /\ worker'[w].pc \in {"idle", "skipped"}
            /\ worker'[w].events = <<>>]_vars

\* the interval fired and returned at once while the tick before it awaits
\* the Sender's answer for the purchase event
C28_Witness ==
  \E w, v \in WorkerIds :
    /\ worker[w].pc = "sending"
    /\ worker[w].isRunning
    /\ Head(worker[w].events).queue_id = 2
    /\ worker[v].pc = "skipped"

\* C29: within one tick the batch is worked through event by event whatever
\* happens to an event (payload that does not parse, append that fails,
\* Sender failure): the tick goes on with the next event of its scan, and it
\* ends only after the last one.
C29_ErrorDoesNotAbortBatch ==
  [][\A w \in WorkerIds :
       (worker[w].pc \in {"loop", "sending", "recording"} /\ worker'[w] # worker[w]) =>
         \/ /\ worker'[w].events = worker[w].events
            /\ worker'[w].pc \in {"sending", "recording"}
         \/ /\ Len(worker[w].events) > 1
            /\ worker'[w].events = Tail(worker[w].events)
            /\ worker'[w].pc = "loop"
         \/ /\ Len(worker[w].events) = 1
            /\ worker'[w].pc = "idle"]_vars

\* the scan returned both events, the payload of the first did not parse, and
\* the tick is awaiting the Sender's answer for the second; before that an
\* append had failed
C29_Witness ==
  \E w \in WorkerIds :
    /\ worker[w].pc = "sending"
    /\ Head(worker[w].events).queue_id = 2
    /\ \E r \in LatestRows(1) : IsDue(r, clock) /\ ~Parseable(r.capi_payload_json)
    /\ senderCalls[1] = 0
    /\ lostInserts >= 1

(* ------------------------ appends that can fail ------------------------- *)
\* One server process on a ledger whose inserts can fail.  The ledger holds a
\* purchase event that has failed five times, one attempt after the other,
\* and is due for its last attempt; sendMetaWithQueue has just been called
\* with a subscribe event and awaits its PENDING insert.  The access token of
\* each brand is set.
InitAppend ==
  LET purchase == CHOOSE m \in MetadataSet : m.source = "purchase"
      base == baseRecord(1, purchase, CapiEventFor(purchase), 0)
      r1 == statusRow(base, 1, FALSE, 2, 0)
      r2 == statusRow(r1, 2, FALSE, r1.next_attempt_at + 1, 0)
      r3 == statusRow(r2, 3, FALSE, r2.next_attempt_at + 1, 0)
      r4 == statusRow(r3, 4, FALSE, r3.next_attempt_at + 1, 0)
      r5 == statusRow(r4, 5, FALSE, r4.next_attempt_at + 1, 0)
      subscribe == CHOOSE m \in MetadataSet : m.source = "subscribe"
      now == r5.next_attempt_at
  IN  /\ clock = now
      /\ hasToken = TRUE
      /\ requests = 0
      /\ nextId = 2
      /\ ledger = [q \in QueueIds |-> IF q = 1 THEN <<base, r1, r2, r3, r4, r5>> ELSE <<>>]
      /\ smq = [q \in QueueIds |->
                  IF q = 2
                  THEN [pc |-> "insertPending",
                        baseRecord |-> baseRecord(2, subscribe, CapiEventFor(subscribe), now),
                        row |-> NULL, since |-> now]
                  ELSE IdleSmq]
      /\ worker = [w \in WorkerIds |-> IdleWorker]
      /\ senderCalls = [q \in QueueIds |-> IF q = 1 THEN 5 ELSE 0]
      /\ senderFails = [q \in QueueIds |-> IF q = 1 THEN 5 ELSE 0]
      /\ lostInserts = 0
      /\ NoWebhooks

\* the steps of that process up to the first backoff instant (a FAILED row
\* written in the behaviour does not come due)
NextAppend ==
  \/ ClockTick
  \/ \E q \in QueueIds : SmqPendingInserted(q) \/ SmqPendingInsertFailed(q)
  \/ \E q \in QueueIds : SmqSend(q)
  \/ \E q \in QueueIds : \E success \in BOOLEAN, jitterMs \in JitterSet : SmqSendReturn(q, success, jitterMs)
  \/ \E q \in QueueIds : SmqRecorded(q) \/ SmqRecordFailed(q)
  \/ WorkerStep(1)
  \/ WorkerRecordFailed(1)

SpecAppend == InitAppend /\ [][NextAppend]_vars


\* C31: a failed append never aborts its caller.  A sendMetaWithQueue call
\* that has returned has invoked the Sender, whether its PENDING append was
\* stored or failed; and the step in which an append fails moves
\* sendMetaWithQueue on to the attempt (PENDING row) or to its end (result
\* row), and moves the tick on to the next event of its batch, or to its end
\* after the last one.
C31_AppendFailureNeverAborts ==
  /\ [](\A q \in QueueIds : smq[q].pc \in {"sending", "recording", "done"} => senderCalls[q] >= 1)
  /\ [][lostInserts' # lostInserts =>
          /\ \A q \in QueueIds :
               /\ smq[q].pc = "insertPending" => smq'[q].pc \in {"insertPending", "attempt"}
               /\ smq[q].pc = "recording" => smq'[q].pc \in {"recording", "done"}
          /\ \A w \in WorkerIds :
               (worker[w].pc = "recording" /\ worker'[w] # worker[w]) =>
                 IF Len(worker[w].events) > 1
                 THEN worker'[w].pc = "loop" /\ worker'[w].events = Tail(worker[w].events)
                 ELSE worker'[w].pc = "idle" /\ ~worker'[w].isRunning]_vars

\* the PENDING append of the new event failed, the Sender was invoked once
\* all the same and the row of its outcome is the only row of the event
C31_Witness ==
  /\ lostInserts >= 1
  /\ smq[2].pc = "done"
  /\ senderCalls[2] = 1
  /\ Len(ledger[2]) = 1
  /\ ledger[2][1].status \in {"SENT", "FAILED"}

\* C32: the step in which the result-row append of a replay attempt fails
\* leaves the ledger as it was: the row the attempt was made from, if it was
\* the latest row of its queue_id and due, is still so, and a scan issued
\* then can return it again, whether the attempt had succeeded or not.
C32_LostResultRowIsRetried ==
  [][\A w \in WorkerIds :
       (worker[w].pc = "recording" /\ worker'[w] # worker[w] /\ lostInserts' # lostInserts) =>
         LET event == Head(worker[w].events)
         IN  /\ ledger' = ledger
             /\ (event \in LatestRows(event.queue_id) /\ IsDue(event, clock)) =>
                  \E s \in getRetryableMetaEvents(ReplayLimit, clock)' :
                    \E i \in 1..Len(s) : s[i] = event]_vars

\* the sixth attempt of the stored event succeeded and its row was lost; the
\* event was selected again and sent a seventh time, again with success
C32_Witness ==
  /\ lostInserts >= 1
  /\ senderCalls[1] = 7
  /\ senderFails[1] = 5
  /\ worker[1].pc = "recording"
  /\ Head(worker[1].events).queue_id = 1
  /\ Head(worker[1].events).attempt_count = 5
  /\ worker[1].row.status = "SENT"

\* the columns of a row that say which event it is about
EventColumns(r) ==
  <<r.capi_payload_json, r.event_id, r.pixel_id, r.brand, r.event_name, r.created_at,
    r.source, r.email, r.email_hash, r.keap_contact_id, r.order_id>>

\* C33: every row of a queue_id carries the payload, event_id, pixel_id,
\* brand, event_name and created_at of its PENDING row, and every Sender
\* invocation for the queue_id, immediate or replayed, is made with that
\* payload and pixel_id.
C33_RetriesSendTheSameEvent ==
  \A q \in QueueIds :
    ledger[q] # <<>> =>
      LET pending == ledger[q][1]
      IN  /\ pending.status = "PENDING"
          /\ \A r \in Rows(q) : EventColumns(r) = EventColumns(pending)
          /\ smq[q].pc = "sending" =>
               /\ smq[q].baseRecord.capi_payload_json = pending.capi_payload_json
               /\ smq[q].baseRecord.pixel_id = pending.pixel_id
          /\ \A w \in WorkerIds :
               (worker[w].pc = "sending" /\ Head(worker[w].events).queue_id = q) =>
                 /\ Head(worker[w].events).capi_payload_json = pending.capi_payload_json
                 /\ Head(worker[w].events).pixel_id = pending.pixel_id
                 /\ Head(worker[w].events).capi_payload_json[1].event_id = pending.event_id

\* the third replay of a purchase event is with the Sender; three rows were
\* written for it after the PENDING row
C33_Witness ==
  \E w \in WorkerIds :
    /\ worker[w].pc = "sending"
    /\ Head(worker[w].events).attempt_count = 3
    /\ Head(worker[w].events).source = "purchase"
    /\ Len(ledger[Head(worker[w].events).queue_id]) >= 4
    /\ Head(worker[w].events).created_at < Head(worker[w].events).updated_at

\* C34: a processPayment run that has reached classification hands exactly
\* one row to insertWebhookLog, in the step in which the classification ends
\* (Purchase, RecurringPayment, Purchase after an error, installment skip),
\* and none before; the row carries the payment id, the plan id, the prior
\* order count and the note of that classification; and every row that names
\* an event has its event handed to sendMetaWithQueue whatever becomes of
\* the row's insert.
C34_EveryClassificationIsLogged ==
  /\ [][\A h \in HookIds :
          LET hk == hooks[h]
              row == webhookLog'[Len(webhookLog')]
              logged == /\ Len(webhookLog') = Len(webhookLog) + 1
                        /\ SubSeq(webhookLog', 1, Len(webhookLog)) = webhookLog
                        /\ row.payment_id = hk.paymentId
          IN  hooks'[h] # hk =>
                /\ hk.pc = "getTransaction" => webhookLog' = webhookLog
                /\ hk.pc = "getOrder" =>
                     IF hooks'[h].pc = "getOrdersByContact" /\ hooks'[h].paymentId = hk.paymentId
                     THEN webhookLog' = webhookLog
                     ELSE /\ logged
                          /\ row.subscription_plan_id = 0
                          /\ row.prior_order_count = -1
                          /\ \/ row.classification_note = "installment_skip" /\ row.event_name = NULL
                             \/ /\ row.classification_note \in {"no_subscription_plan", NULL}
                                /\ row.event_name = "Purchase"
                /\ hk.pc = "getOrdersByContact" =>
                     /\ logged
                     /\ row.subscription_plan_id = hk.subscriptionPlanId
                     /\ row.subscription_plan_id # 0
                     /\ \/ /\ row.classification_note = "classification_error"
                           /\ row.prior_order_count = -1
                           /\ row.event_name = "Purchase"
                        \/ /\ row.classification_note = NULL
                           /\ row.prior_order_count >= 0
                           /\ row.event_name = IF row.prior_order_count > 0
                                               THEN "RecurringPayment" ELSE "Purchase"]_vars
  /\ [](\A row \in Range(webhookLog) : row.event_name # NULL => EventsFor(row.payment_id) # {})

\* the insert of the log row of a RecurringPayment classification failed and
\* the event is in the queue
C34_Witness ==
  \E row \in Range(webhookLog) :
    /\ row.insert = "failed"
    /\ row.event_name = "RecurringPayment"
    /\ row.prior_order_count = 2
    /\ \E q \in EventsFor(row.payment_id) : smq[q].baseRecord.event_name = "RecurringPayment"

C36_EveryScannedEventGetsARow ==
  [][\A w \in WorkerIds :
       (/\ worker[w].pc \in {"loop", "sending", "recording"}
        /\ worker'[w].events # worker[w].events
        /\ lostInserts' = lostInserts) =>
         LET event == Head(worker[w].events)
             rows == ledger'[event.queue_id]
         IN  /\ Len(rows) = Len(ledger[event.queue_id]) + 1
             /\ rows[Len(rows)].attempt_count = event.attempt_count + 1]_vars

\* C37: the flag is taken only while a body of tick is executing: once the
\* tick has ended (empty or failed scan, batch worked through, error of an
\* event) the flag is free and the next invocation is not turned away.
C37_FlagAlwaysReleased ==
  /\ [](isRunning => TickBodies # {})
  /\ [][\A w \in WorkerIds :
          (w \in TickBodies /\ worker'[w].pc \in {"idle", "skipped"}) => ~isRunning']_vars

\* a tick whose batch held an event that did not parse has ended after a
\* Sender call, and the flag is free
C37_Witness ==
  /\ TickBodies = {}
  /\ ~isRunning
  /\ senderCalls[2] >= 1
  /\ \E r \in LatestRows(1) : ~Parseable(r.capi_payload_json)

\* C38: a step of a global Reconciler run that adds a transaction to the
\* run's resolved set hands a delivery event for that transaction to
\* sendMetaWithQueue.
C38_ResolvedMeansEnqueued ==
  [][\A h \in HookIds :
       (hooks[h].caller = "reconciler" /\ hooks[h].pc \in PaymentPcs /\
        hooks'[h].reconciled # hooks[h].reconciled) =>
         /\ hooks'[h].reconciled = hooks[h].reconciled \cup {hooks[h].paymentId}
         /\ nextId' = nextId + 1
         /\ smq'[nextId'].baseRecord.event_id = ExpectedEventId(hooks[h].paymentId)]_vars

(* ------------------ one placeholder, two transactions ------------------- *)
\* A webhook call with object_keys [{id: 0}] arrived at 0 and was
\* acknowledged; its Reconciler sleeps before its first attempt.  The CRM
\* lists two transactions of the last minutes, 845325 and 900050, and no
\* event of either is in the ledger.
InitOverrun ==
  /\ InitQueue
  /\ hasToken \in BOOLEAN
  /\ requests = MaxQueueIds
  /\ crm \in {c \in CrmSet : c.paymentId = 900050}
  /\ recent = {845325, 900050}
  /\ hooks = [h \in HookIds |->
                IF h = 1
                THEN [IdleHook EXCEPT !.pc = "sleep", !.event_key = "invoice.payment.add",
                                      !.object_keys = <<0>>, !.reply = "received",
                                      !.deferredCount = 1, !.acked = TRUE]
                ELSE OffHook]
  /\ webhookLog = <<>>

NextOverrun ==
  \/ ClockTick
  \/ AdvanceToTimer
  \/ \E h \in HookIds : PaymentStep(h)
  \/ \E h \in HookIds : ReconcileStep(h)
  \/ \E q \in QueueIds : SmqStep(q)

SpecOverrun == InitOverrun /\ [][NextOverrun]_vars

\* the transactions an attempt of call h has still to process: those left in
\* its list that are neither in its index snapshot nor resolved
ToProcess(hk, reconciled) ==
  {t \in Range(hk.recentTxns) : t > 0 /\ String(t) \notin hk.alreadyProcessed /\ t \notin reconciled}

\* C39: when a processPayment call of a global Reconciler attempt has ended
\* and transactions of the attempt's list are left that are neither in the
\* attempt's index snapshot nor resolved in the run, the attempt goes on with
\* one of them, also when the resolved count has reached the expected count.
C39_ExpectedCountGatesAttemptsOnly ==
  [][\A h \in HookIds :
       (/\ hooks[h].caller = "reconciler"
        /\ hooks[h].pc \in PaymentPcs
        /\ hooks'[h] # hooks[h]
        /\ hooks'[h].pc \notin {"getOrder", "getOrdersByContact"}
        /\ ToProcess(hooks[h], hooks'[h].reconciled) # {}) =>
         /\ hooks'[h].pc = "getTransaction"
         /\ hooks'[h].caller = "reconciler"
         /\ hooks'[h].paymentId \in ToProcess(hooks[h], hooks'[h].reconciled)
         /\ hooks'[h].i = hooks[h].i]_vars

\* a run for one placeholder has ended after enqueuing two delivery events on
\* its first attempt
C39_Witness ==
  \E h \in HookIds :
    /\ hooks[h].pc = "done"
    /\ hooks[h].deferredCount = 1
    /\ hooks[h].i = 1
    /\ hooks[h].reconciled = {845325, 900050}
    /\ EventsFor(845325) # {}
    /\ EventsFor(900050) # {}

(* -------------------- the windows of the two queries -------------------- *)
\* the instants at which the placeholder call below is acknowledged: together
\* with the payment, so that the first attempt wakes exactly 15 minutes after
\* it, and so that it wakes exactly 30 minutes after it
StartInstants ==
  {0, RecentWindowMinutes * MsPerMinute - delays[1], DedupWindowMinutes * MsPerMinute - delays[1]}

\* Transaction 900050 was created at instant 0 and its webhook call, which
\* carried the id, was processed at once: the event was enqueued at 0 and
\* delivered, and its rows were stored or both appends failed.  Later a
\* webhook call with object_keys [{id: 0}] arrives and is acknowledged; its
\* Reconciler sleeps before its first attempt.
InitWindow ==
  /\ crm \in {c \in CrmSet : c.paymentId = 900050}
  /\ recent = {900050}
  /\ clock \in StartInstants
  /\ hasToken \in BOOLEAN
  /\ requests = MaxQueueIds - 1
  /\ nextId = 1
  /\ LET base == baseRecord(1, queueMetadata(900050, "Purchase"),
                            paymentCapiEvent(900050, "Purchase"), crm.date_created)
         sent == statusRow(base, 1, TRUE, crm.date_created + 1, 0)
     IN  /\ \E stored \in BOOLEAN :
              /\ ledger = [q \in QueueIds |-> IF q = 1 /\ stored THEN <<base, sent>> ELSE <<>>]
              /\ lostInserts = IF stored THEN 0 ELSE MaxLostInserts
         /\ smq = [q \in QueueIds |->
                     IF q = 1 THEN [pc |-> "done", baseRecord |-> base, row |-> sent,
                                    since |-> crm.date_created]
                     ELSE IdleSmq]
  /\ worker = [w \in WorkerIds |-> IdleWorker]
  /\ senderCalls = [q \in QueueIds |-> IF q = 1 THEN 1 ELSE 0]
  /\ senderFails = [q \in QueueIds |-> 0]
  /\ hooks = [h \in HookIds |->
                IF h = 1
                THEN [IdleHook EXCEPT !.pc = "sleep", !.event_key = "invoice.payment.add",
                                      !.object_keys = <<0>>, !.reply = "received",
                                      !.deferredCount = 1, !.acked = TRUE, !.since = clock]
                ELSE OffHook]
  /\ webhookLog = <<>>

SpecWindow == InitWindow /\ [][NextOverrun]_vars

\* a PENDING row of the event of transaction t, enqueued after t was created,
\* is in the ledger
PendingRowStored(t) ==
  \E q \in QueueIds : \E r \in Rows(q) :
    /\ r.event_id = ExpectedEventId(t)
    /\ r.status = "PENDING"
    /\ r.created_at >= crm.date_created

\* C40: whenever the index query of an attempt is answered, by rows or by
\* its catch, every transaction the CRM query of the attempt returned whose
\* PENDING row, created after the transaction, is stored is in the set the
\* attempt works with and is not processed.
C40_WindowContainment ==
  [][\A h \in HookIds :
       (hooks[h].pc = "index" /\ hooks'[h].pc # "index") =>
         \A t \in Range(hooks[h].recentTxns) :
           PendingRowStored(t) =>
             /\ String(t) \in hooks'[h].alreadyProcessed
             /\ ~(hooks'[h].pc = "getTransaction" /\ hooks'[h].paymentId = t)]_vars

====
